---- MODULE Spec2Model ----
(***************************************************************************)
(* Model of the metadata resolution core of the Plex IMDb extension:       *)
(* the sliding-window RateLimiter and fetchWithRetry (src/rate-limiter.js),*)
(* the LRUCache (src/unnamed/part_001), the OMDBClient (src/api-client.js),*)
(* the PlexAPIClient (src/unnamed/part_002) and the MetadataResolver       *)
(* (src/metadata-resolver.js).                                             *)
(*                                                                         *)
(* Times are milliseconds measured from the present instant: Date.now()    *)
(* reads 0, a recorded timestamp is a number <= 0 and a pending timer is   *)
(* due at a number >= 0.  When time passes by d every stored time moves    *)
(* down by d.  A timestamp that has left the window stays at -windowMs and *)
(* an overdue timer at 0: how long ago that happened changes nothing.      *)
(*                                                                         *)
(* JavaScript runs one handler at a time, so every action below is one     *)
(* run-to-completion step: a call, a timer callback or the settling of an  *)
(* awaited promise, followed by the synchronous code up to the next await  *)
(* that really suspends.                                                   *)
(***************************************************************************)
EXTENDS Integers, Sequences, FiniteSets, TLC

\* ---------------------------------------------------------------- bounds
FetchLimit == 1
FetchWindowTicks == 2
MaxWindowTicks == 2
MaxLimit == 2
MaxRetryAfter == 2
MaxCacheSize == 2
MaxTtlMinutes == 1
MaxLookups == 2
LruMaxSize == 3
MaxResolverLookups == 1
MaxChanges == 2
MaxTriggers == 3
MaxLoads == 2
TickMs == 1000

\* ------------------------------------------------------ program constants
MAX_RETRY_ATTEMPTS == 3
INITIAL_RETRY_DELAY_MS == 1000
MAX_RETRY_DELAY_MS == 10000
FETCH_TIMEOUT_MS == 10000
PLEX_API_TIMEOUT_MS == 5000
NFILES == 11
MAX_RECURSION_DEPTH == 10
DEFAULT_RETRY_AFTER == 60
ENABLE_RATE_LIMITING == TRUE
ENABLE_CACHE == TRUE

\* Date.now()
now == 0

\* The concurrent callers of the limiter; the content script, which runs one
\* resolution at a time, is the caller of fetchWithRetry
Callers == {1, 2, 3}
Fetchers == {1}

VARIABLES
    maxRequests,  \* RateLimiter.maxRequests
    windowMs,     \* RateLimiter.windowMs
    requests,     \* RateLimiter.requests: recorded timestamps, oldest first
    st,           \* per caller: the frame of its acquire()/fetchWithRetry() call
    sent,         \* log: times of the network requests sent, oldest first
    stamps,       \* log: the timestamps acquire() has recorded, oldest first
    probe         \* what the last canRequest() or getStatus() call returned

limiterVars == <<maxRequests, windowMs, requests, st, sent, stamps, probe>>

VARIABLES
    cache,        \* LRUCache.cache: the Map's entries in iteration order
    maxSize,      \* LRUCache.maxSize
    ttl,          \* LRUCache.ttl
    hits,         \* LRUCache.hits
    misses,       \* LRUCache.misses
    last,         \* log: the last cache operation, its result and its eviction
    lru,          \* log: the stored entries as written by set, in order of
                  \* last access (set, or get/has that found them live)
    calls         \* log: the get and has calls made, since construction
                  \* and since the last clear

cacheVars == <<cache, maxSize, ttl, hits, misses, last, lru, calls>>

VARIABLES
    page,         \* document.body.innerHTML: the IMDb id embedded in it, or "null"
    href,         \* window.location.href: the rating key in it, or "null"
    apiKey,       \* OMDBClient.apiKey
    plexToken,    \* PlexAPIClient.plexToken
    plexUrl,      \* PlexAPIClient.plexUrl
    rs            \* the frame of the resolveIMDbId() call

VARIABLES
    stored,       \* chrome.storage.sync: omdbApiKey, plexToken, plexUrl
    notices,      \* the onChanged events not yet delivered, oldest first
    reads,        \* the storage reads of loadApiKey/loadCredentials in
                  \* flight, oldest first
    readLog,      \* log: per client, whether its last completed read failed
    saves         \* log: the number of settings changes made

settingsVars == <<stored, notices, reads, readLog, saves>>

VARIABLES
    isProcessing, \* content.js: the in-flight guard flag
    urlObserver,  \* content.js: the page is observed (FALSE after cleanup)
    jobs,         \* per trigger: where its onUrlChange()/addIMDbLink() is
    ids,          \* per trigger: the imdbId its findIMDbId() returned
    rated,        \* the ids getByIMDbId() passed on to request(), in order
    links         \* the ids of the IMDb links appended to the page, in order

contentVars == <<isProcessing, urlObserver, jobs, ids, rated, links>>

VARIABLES
    injectedTabs, \* background-chrome.js: the ids of the tabs tracked as injected
    savedTabs,    \* chrome.storage.local: the injectedTabs last saved
    tabs,         \* per tab: open or closed, its URL, its load status, the
                  \* number of its document and the files executed in it
    runs          \* the injectContentScript calls that are awaiting an
                  \* executeScript: their tab and the file being executed

workerVars == <<injectedTabs, savedTabs, tabs, runs>>

\* The state of the content-script context outside the limiter and the cache
resolverVars ==
    <<page, href, apiKey, plexToken, plexUrl, rs, settingsVars, contentVars, workerVars>>

vars == <<limiterVars, cacheVars, resolverVars>>

Min(a, b) == IF a < b THEN a ELSE b
Max(a, b) == IF a > b THEN a ELSE b

RECURSIVE Pow2(_)
Pow2(n) == IF n = 0 THEN 1 ELSE 2 * Pow2(n - 1)

\* Array.prototype.filter with the predicate of _cleanupExpired
RECURSIVE FilterLive(_, _)
FilterLive(reqs, t) ==
    IF reqs = <<>> THEN <<>>
    ELSE IF t - Head(reqs) < windowMs
         THEN <<Head(reqs)>> \o FilterLive(Tail(reqs), t)
         ELSE FilterLive(Tail(reqs), t)

\* RateLimiter._cleanupExpired
cleanupExpired(reqs, t) == FilterLive(reqs, t)

\* RateLimiter.cleanup: purge, then the hard cap slice(-maxRequests)
cleanup(reqs, t) ==
    LET live == cleanupExpired(reqs, t)
    IN  IF Len(live) > maxRequests * 10
        THEN SubSeq(live, Len(live) - maxRequests + 1, Len(live))
        ELSE live

\* acquire, line 52: depth >= MAX_RECURSION_DEPTH
recursionExceededOff(depth) == depth > MAX_RECURSION_DEPTH
recursionExceeded(depth) == depth >= MAX_RECURSION_DEPTH

\* acquire, line 63: this.requests.length >= this.maxRequests
limiterFullNever(reqs) == FALSE
limiterFullOff(reqs) == Len(reqs) > maxRequests
limiterFull(reqs) == Len(reqs) >= maxRequests

\* acquire, lines 64-65: windowMs - (Date.now() - oldestRequest)
waitTime(reqs, t) == windowMs - (t - reqs[1])

\* canRequest taking the slot it has found free
canRequestRecords(reqs, t) ==
    LET live == cleanupExpired(reqs, t)
    IN  [reqs |-> IF Len(live) < maxRequests THEN Append(live, t) ELSE live,
         can |-> Len(live) < maxRequests]

\* RateLimiter.canRequest, lines 81-84: the purged list and the answer
canRequest(reqs, t) ==
    LET live == cleanupExpired(reqs, t)
    IN  [reqs |-> live, can |-> Len(live) < maxRequests]

\* getStatus computed from the list as it is, without the purge
getStatusNoPurge(reqs, t) ==
    [reqs |-> reqs,
     remaining |-> Max(0, maxRequests - Len(reqs)),
     total |-> maxRequests,
     resetIn |-> IF Len(reqs) > 0 THEN windowMs - (t - reqs[1]) ELSE 0,
     window |-> windowMs]

\* RateLimiter.getStatus, lines 91-105: the purged list and the status
getStatus(reqs, t) ==
    LET live == cleanupExpired(reqs, t)
    IN  [reqs |-> live,
         remaining |-> Max(0, maxRequests - Len(live)),
         total |-> maxRequests,
         resetIn |-> IF Len(live) > 0 THEN windowMs - (t - live[1]) ELSE 0,
         window |-> windowMs]

\* No canRequest() or getStatus() call has been made
NoProbe ==
    [op |-> "none", can |-> FALSE, remaining |-> 0, total |-> 0,
     resetIn |-> 0, window |-> 0]

\* The frame of a call that has not started
IdleFrame ==
    [pc |-> "idle", api |-> "none", depth |-> 0, wake |-> 0, evals |-> 0,
     maxRetries |-> 0, attempt |-> 0, armed |-> FALSE, due |-> 0,
     aborted |-> FALSE, lastError |-> "null", result |-> "none",
     status |-> 0, nSent |-> 0, nWaits |-> 0, lastWait |-> 0,
     got4xx |-> FALSE, timedOut |-> FALSE, deadSignal |-> 0,
     got429 |-> FALSE, event |-> "none", hdr |-> 0 - 1, waited |-> 0]

\* The HTTP statuses the provider answers with, and response.ok
Statuses == {200, 404, 429, 500}
ok(status) == status >= 200 /\ status <= 299

\* The Retry-After header: -1 when absent, else its number of seconds
RetryAfters == {-1} \cup (0..MaxRetryAfter)

\* fetchWithRetry, lines 146-147: parseInt(header || 60) * 1000
retryAfterAsMs(header) ==
    IF header = -1 THEN DEFAULT_RETRY_AFTER ELSE header
retryAfterMs(header) ==
    (IF header = -1 THEN DEFAULT_RETRY_AFTER ELSE header) * 1000

\* fetchWithRetry, lines 164-167 and 196-199
backoffFlat(attempt) == INITIAL_RETRY_DELAY_MS
backoff(attempt) ==
    Min(INITIAL_RETRY_DELAY_MS * Pow2(attempt), MAX_RETRY_DELAY_MS)

\* fetchWithRetry, line 209 (src/unnamed/part_005 ends without it)
loopExitOff(s) == [s EXCEPT !.pc = "returned", !.result = "undefined"]
loopExit(s) ==
    [s EXCEPT !.pc = "thrown",
              !.result = IF s.lastError = "null" THEN "Error" ELSE s.lastError]

\* fetchWithRetry, lines 182-204: the catch block
catch(s, err, t) ==
    LET s1 == [s EXCEPT !.armed = FALSE, !.lastError = err]
    IN  IF s.attempt = s.maxRetries - 1
        THEN [s1 EXCEPT !.pc = "thrown", !.result = err]
        ELSE [s1 EXCEPT !.pc = "backoff",
                        !.wake = t + backoff(s.attempt),
                        !.nWaits = @ + 1,
                        !.lastWait = backoff(s.attempt),
                        !.waited = 0]

\* fetchWithRetry, lines 133-140: the loop test and the fetch() it issues.
\* fetch() with a signal that is already aborted rejects at once with an
\* AbortError and sends nothing.
loopTopOnceMore(s, t) ==
    IF s.attempt > s.maxRetries THEN loopExit(s)
    ELSE IF s.aborted
         THEN catch([s EXCEPT !.deadSignal = @ + 1, !.event = "AbortError"],
                    "AbortError", t)
         ELSE [s EXCEPT !.pc = "fetching", !.nSent = @ + 1]
loopTop(s, t) ==
    IF s.attempt >= s.maxRetries THEN loopExit(s)
    ELSE IF s.aborted
         THEN catch([s EXCEPT !.deadSignal = @ + 1, !.event = "AbortError"],
                    "AbortError", t)
         ELSE [s EXCEPT !.pc = "fetching", !.nSent = @ + 1]

\* fetchWithRetry, lines 127-131: controller, timeout timer, lastError
fetchBody(s, t) ==
    loopTop([s EXCEPT !.armed = TRUE, !.due = t + FETCH_TIMEOUT_MS,
                      !.aborted = FALSE, !.lastError = "null",
                      !.attempt = 0], t)

\* fetchWithRetry, lines 142-180: a response has arrived
onResponse(s, status, header, t) ==
    LET s1 == [s EXCEPT !.armed = FALSE, !.status = status]
    IN  IF status = 429
        THEN [s1 EXCEPT !.pc = "wait429",
                        !.wake = t + retryAfterMs(header),
                        !.nWaits = @ + 1,
                        !.lastWait = retryAfterMs(header),
                        !.got429 = TRUE,
                        !.waited = 0]
        ELSE IF status >= 500
        THEN IF s.attempt = s.maxRetries - 1
             THEN catch([s1 EXCEPT !.lastError = "HTTP5xx"], "HTTP5xx", t)
             ELSE [s1 EXCEPT !.lastError = "HTTP5xx",
                             !.pc = "backoff",
                             !.wake = t + backoff(s.attempt),
                             !.nWaits = @ + 1,
                             !.lastWait = backoff(s.attempt),
                             !.waited = 0]
        ELSE IF ~ok(status)
        THEN catch([s1 EXCEPT !.got4xx = TRUE], "HTTP4xx", t)
        ELSE [s1 EXCEPT !.pc = "returned", !.result = "response"]

\* RateLimiter.acquire(depth), lines 49-74, continued by its caller
acquire(s, reqs, depth, t) ==
    IF recursionExceeded(depth)
    THEN [s |-> [s EXCEPT !.pc = "thrown", !.result = "RateLimiterError"],
          reqs |-> reqs, stamped |-> FALSE]
    ELSE IF ~ENABLE_RATE_LIMITING
    THEN [s |-> IF s.api = "fetch" THEN fetchBody(s, t)
                ELSE [s EXCEPT !.pc = "returned", !.result = "void"],
          reqs |-> reqs, stamped |-> FALSE]
    ELSE LET live == cleanup(reqs, t)
         IN  IF limiterFull(live)
             THEN [s |-> [s EXCEPT !.pc = "acqWait",
                                   !.wake = t + waitTime(live, t),
                                   !.depth = depth + 1,
                                   !.evals = @ + 1],
                   reqs |-> live, stamped |-> FALSE]
             ELSE [s |-> IF s.api = "fetch" THEN fetchBody(s, t)
                         ELSE [s EXCEPT !.pc = "returned", !.result = "void"],
                   reqs |-> Append(live, t), stamped |-> TRUE]

\* ------------------------------------------------------------------------
\* LRUCache (src/unnamed/part_001)

Keys == {"k1", "k2", "k3"}
Values == {"v1", "v2"}

\* Map.get: the position of the key's entry, 0 when the Map has none
IndexOf(c, key) ==
    IF \E i \in 1..Len(c) : c[i].key = key
    THEN CHOOSE i \in 1..Len(c) : c[i].key = key
    ELSE 0

\* Map.delete
mapDelete(c, key) == SelectSeq(c, LAMBDA e : e.key # key)

\* Map.set: an existing key keeps its position, a new key goes to the end
mapSet(c, key, item) ==
    IF IndexOf(c, key) = 0
    THEN Append(c, [key |-> key] @@ item)
    ELSE [c EXCEPT ![IndexOf(c, key)] = [key |-> key] @@ item]

\* LRUCache.get, line 32: Date.now() > item.expiry
expiredEarly(item, t) == t >= item.expiry
expiredReversed(item, t) == t < item.expiry
expired(item, t) == t > item.expiry

\* LRUCache.get, lines 23-44
get(c, key, t) ==
    LET i == IndexOf(c, key)
    IN  IF i = 0
        THEN [cache |-> c, hit |-> FALSE, value |-> "null"]
        ELSE IF expired(c[i], t)
        THEN [cache |-> mapDelete(c, key), hit |-> FALSE, value |-> "null"]
        ELSE [cache |-> mapSet(mapDelete(c, key), key,
                               [value |-> c[i].value, expiry |-> c[i].expiry]),
              hit |-> TRUE, value |-> c[i].value]

\* LRUCache.set, line 53: this.cache.size >= this.maxSize
atCapacityOff(c) == Len(c) > maxSize
atCapacity(c) == Len(c) >= maxSize

\* LRUCache.set, lines 51-63 (the entry's timestamp field is never read)
set(c, key, value, t) ==
    LET c1 == IF atCapacity(c) /\ c # <<>> THEN mapDelete(c, c[1].key) ELSE c
    IN  mapSet(c1, key, [value |-> value, expiry |-> t + ttl])

\* The key LRUCache.set removes at line 55, "none" when it removes nothing
firstKey(c) == IF atCapacity(c) /\ c # <<>> THEN c[1].key ELSE "none"

\* The keys LRUCache.set removes at line 55
evictedKeys(c) == IF atCapacity(c) /\ c # <<>> THEN {c[1].key} ELSE {}

\* The access log without the entries of the given keys
Forget(h, ks) == SelectSeq(h, LAMBDA e : e.key \notin ks)

\* The access log after a get or has of the key at time t: an entry still
\* live becomes the most recently accessed, one past its expiry is gone
Accessed(h, key, t) ==
    LET found == SelectSeq(h, LAMBDA e : e.key = key)
    IN  IF found = <<>> THEN h
        ELSE IF t > found[1].expiry THEN Forget(h, {key})
        ELSE Forget(h, {key}) \o found

\* The access log after set(key, value) at time t has evicted the keys ks
Written(h, key, value, t, ks) ==
    Append(Forget(h, ks \cup {key}),
           [key |-> key, value |-> value, expiry |-> t + ttl])

\* The call log before any call, and after one more get or has
NoCalls == [made |-> 0, sinceClear |-> 0]
Called(n) == [made |-> n.made + 1, sinceClear |-> n.sinceClear + 1]

\* What the access log holds for the key at time t: nothing, or an entry
\* before, at or past its expiry
Found(h, key, t) ==
    LET found == SelectSeq(h, LAMBDA e : e.key = key)
    IN  IF found = <<>> THEN "absent"
        ELSE IF t < found[1].expiry THEN "live"
        ELSE IF t = found[1].expiry THEN "atExpiry"
        ELSE "expired"

\* The value the access log holds for the key, "null" when it holds none
Stored(h, key) ==
    LET found == SelectSeq(h, LAMBDA e : e.key = key)
    IN  IF found = <<>> THEN "null" ELSE found[1].value

NoOp == [op |-> "none", key |-> "none", ret |-> "none", evicted |-> "none",
         found |-> "none", stored |-> "none"]

\* apiCache.get(key)
Get(key) ==
    /\ calls.made < MaxLookups
    /\ LET r == get(cache, key, now)
       IN  /\ cache' = r.cache
           /\ hits' = IF r.hit THEN hits + 1 ELSE hits
           /\ misses' = IF r.hit THEN misses ELSE misses + 1
           /\ last' = [NoOp EXCEPT !.op = "get", !.key = key, !.ret = r.value,
                                   !.found = Found(lru, key, now),
                                   !.stored = Stored(lru, key)]
    /\ lru' = Accessed(lru, key, now)
    /\ calls' = Called(calls)
    /\ UNCHANGED <<maxSize, ttl>>

\* has(key) written as this.cache.has(key): no expiry test, no counting
HasPeek(key) ==
    /\ calls.made < MaxLookups
    /\ last' = [NoOp EXCEPT !.op = "has", !.key = key,
                            !.ret = IF IndexOf(cache, key) # 0 THEN "true"
                                    ELSE "false",
                            !.found = Found(lru, key, now),
                            !.stored = Stored(lru, key)]
    /\ calls' = Called(calls)
    /\ UNCHANGED <<cache, maxSize, ttl, hits, misses, lru>>

\* apiCache.has(key), lines 70-72: this.get(key) !== null
Has(key) ==
    /\ calls.made < MaxLookups
    /\ LET r == get(cache, key, now)
       IN  /\ cache' = r.cache
           /\ hits' = IF r.hit THEN hits + 1 ELSE hits
           /\ misses' = IF r.hit THEN misses ELSE misses + 1
           /\ last' = [NoOp EXCEPT !.op = "has", !.key = key,
                                   !.ret = IF r.value # "null" THEN "true"
                                           ELSE "false",
                                   !.found = Found(lru, key, now),
                                   !.stored = Stored(lru, key)]
    /\ lru' = Accessed(lru, key, now)
    /\ calls' = Called(calls)
    /\ UNCHANGED <<maxSize, ttl>>

\* apiCache.set(key, value)
Set(key, value) ==
    /\ cache' = set(cache, key, value, now)
    /\ last' = [NoOp EXCEPT !.op = "set", !.key = key,
                            !.evicted = firstKey(cache)]
    /\ lru' = Written(lru, key, value, now, evictedKeys(cache))
    /\ UNCHANGED <<maxSize, ttl, hits, misses, calls>>

\* apiCache.delete(key), lines 78-80
Delete(key) ==
    /\ cache' = mapDelete(cache, key)
    /\ last' = [NoOp EXCEPT !.op = "delete", !.key = key]
    /\ lru' = Forget(lru, {key})
    /\ UNCHANGED <<maxSize, ttl, hits, misses, calls>>

\* Number.prototype.toFixed(2) of the ratio n / d as a percentage: the
\* whole part and the two decimals, rounded to the nearest hundredth
toFixed2(n, d) ==
    LET h == (2 * 10000 * n + d) \div (2 * d)
    IN  [whole |-> h \div 100, decimals |-> h % 100]

\* LRUCache.getStats, lines 95-106; hitRate is followed by "%"
getStats ==
    [size |-> Len(cache), maxSize |-> maxSize, hits |-> hits,
     misses |-> misses,
     hitRate |-> IF hits + misses > 0 THEN toFixed2(hits, hits + misses)
                 ELSE [whole |-> 0, decimals |-> 0]]

\* clear() that empties the Map and leaves the counters as they are
ClearKeepStats ==
    /\ cache' = <<>>
    /\ last' = [NoOp EXCEPT !.op = "clear"]
    /\ lru' = <<>>
    /\ calls' = [calls EXCEPT !.sinceClear = 0]
    /\ UNCHANGED <<maxSize, ttl, hits, misses>>

\* apiCache.clear(), lines 85-89
Clear ==
    /\ cache' = <<>>
    /\ hits' = 0
    /\ misses' = 0
    /\ last' = [NoOp EXCEPT !.op = "clear"]
    /\ lru' = <<>>
    /\ calls' = [calls EXCEPT !.sinceClear = 0]
    /\ UNCHANGED <<maxSize, ttl>>

\* The cache d milliseconds later; an entry past its expiry stays at -1
AgedCache(c, d) ==
    [i \in 1..Len(c) |-> [c[i] EXCEPT !.expiry = Max(@ - d, 0 - 1)]]

\* ------------------------------------------------------------------------

Finished(s) == s.pc \in {"idle", "returned", "thrown"}
Waiting(s) == s.pc \in {"acqWait", "wait429", "backoff"}

\* The due time of a timer that is not pending holds 0
Norm(s) ==
    [s EXCEPT !.due = IF s.armed THEN @ ELSE 0,
              !.wake = IF Waiting(s) THEN @ ELSE 0,
              !.waited = IF s.pc \in {"wait429", "backoff"} THEN @ ELSE 0]

\* What the fetch() in flight has settled with: the class of the status,
\* and the Retry-After header of the response
Event(s, status, header) ==
    [s EXCEPT !.hdr = header,
              !.event = IF status = 429 THEN "429"
                        ELSE IF status >= 500 THEN "5xx"
                        ELSE IF status >= 400 THEN "4xx" ELSE "2xx"]

\* One handler has run for caller c: its frame, the limiter and the logs
Step(c, old, r) ==
    /\ st' = [st EXCEPT ![c] = Norm(r.s)]
    /\ requests' = r.reqs
    /\ stamps' = IF r.stamped THEN Append(stamps, now) ELSE stamps
    /\ UNCHANGED probe
    /\ sent' = IF r.s.nSent > old.nSent THEN Append(sent, now) ELSE sent

Keep(s) == [s |-> s, reqs |-> requests, stamped |-> FALSE]

\* A caller invokes rateLimiter.acquire()
CallAcquire(c) ==
    /\ Finished(st[c])
    /\ LET s0 == [IdleFrame EXCEPT !.api = "acquire"]
       IN  Step(c, s0, acquire(s0, requests, 0, now))
    /\ UNCHANGED <<maxRequests, windowMs>>

\* A caller invokes fetchWithRetry(url, options, maxRetries)
CallFetch(c) ==
    /\ Finished(st[c])
    /\ \E mr \in 0..MAX_RETRY_ATTEMPTS :
          LET s0 == [IdleFrame EXCEPT !.api = "fetch", !.maxRetries = mr]
          IN  Step(c, s0, acquire(s0, requests, 0, now))
    /\ UNCHANGED <<maxRequests, windowMs>>

\* acquire, lines 69-70: the wait is over, acquire(depth + 1) runs
AcquireWake(c) ==
    /\ st[c].pc = "acqWait" /\ now >= st[c].wake
    /\ Step(c, st[c], acquire(st[c], requests, st[c].depth, now))
    /\ UNCHANGED <<maxRequests, windowMs>>

\* The fetch() in flight settles with a response
FetchResponds(c, status, header) ==
    /\ st[c].pc = "fetching"
    /\ Step(c, st[c],
            Keep(onResponse(Event(st[c], status, header), status, header, now)))
    /\ UNCHANGED <<maxRequests, windowMs>>

\* The fetch() in flight rejects with a network failure (TypeError)
FetchFails(c) ==
    /\ st[c].pc = "fetching"
    /\ Step(c, st[c],
            Keep(catch([st[c] EXCEPT !.event = "TypeError"], "TypeError", now)))
    /\ UNCHANGED <<maxRequests, windowMs>>

\* fetchWithRetry, line 129: the timeout timer fires, controller.abort();
\* a fetch() in flight on that signal rejects with an AbortError
TimeoutFires(c) ==
    /\ st[c].armed /\ now >= st[c].due
    /\ LET s1 == [st[c] EXCEPT !.armed = FALSE, !.aborted = TRUE]
       IN  Step(c, st[c],
                Keep(IF s1.pc = "fetching"
                     THEN catch([s1 EXCEPT !.timedOut = TRUE,
                                           !.event = "AbortError"],
                                "AbortError", now)
                     ELSE s1))
    /\ UNCHANGED <<maxRequests, windowMs>>

\* fetchWithRetry, lines 151-152, 171-172, 203: the wait is over, the
\* loop goes to its next iteration
SleepWake(c) ==
    /\ st[c].pc \in {"wait429", "backoff"} /\ now >= st[c].wake
    /\ Step(c, st[c], Keep(loopTop([st[c] EXCEPT !.attempt = @ + 1], now)))
    /\ UNCHANGED <<maxRequests, windowMs>>

\* rateLimiter.canRequest() is called
CanRequest ==
    /\ LET r == canRequest(requests, now)
       IN  /\ requests' = r.reqs
           /\ probe' = [NoProbe EXCEPT !.op = "canRequest", !.can = r.can]
    /\ UNCHANGED <<maxRequests, windowMs, st, sent, stamps>>

\* rateLimiter.getStatus() is called
GetStatus ==
    /\ LET r == getStatus(requests, now)
       IN  /\ requests' = r.reqs
           /\ probe' = [op |-> "getStatus", can |-> FALSE,
                        remaining |-> r.remaining, total |-> r.total,
                        resetIn |-> r.resetIn, window |-> r.window]
    /\ UNCHANGED <<maxRequests, windowMs, st, sent, stamps>>

\* The times at which a pending timer falls due
Dues ==
    {st[c].wake : c \in {d \in Callers : Waiting(st[d])}}
    \cup {st[c].due : c \in {d \in Callers : st[d].armed}}
    \cup {rs.plexDue : x \in {y \in {1} : rs.pc = "plex"}}

\* A frame, and a list of timestamps, d milliseconds later
Later(s, d) ==
    [s EXCEPT !.wake = Max(@ - d, 0), !.due = Max(@ - d, 0),
              !.waited = IF s.pc \in {"wait429", "backoff"}
                         THEN Min(@ + d, s.lastWait) ELSE @]

Aged(reqs, d) == [i \in 1..Len(reqs) |-> Max(reqs[i] - d, 0 - windowMs)]

\* The logs keep what happened up to windowMs ago
InLog(log, d) ==
    SelectSeq([i \in 1..Len(log) |-> log[i] - d], LAMBDA x : now - x <= windowMs)

\* ------------------------------------------------------------------------
\* OMDBClient (src/api-client.js), PlexAPIClient (src/unnamed/part_002),
\* MetadataResolver (src/metadata-resolver.js)

\* Identifiers that match /tt\d+/; the first two also match /^tt\d{7,8}$/
Ids == {"tt1234567", "tt7654321", "tt12"}
Titles == {"Inception", ""}
Years == {0, 2010}

\* CONFIG.PATTERNS.YEAR: /^(19|20)\d{2}$/
validYear(year) == year >= 1900 /\ year <= 2099

\* The number of digits that follow the "tt" of an identifier
digitsOf(id) ==
    CASE id \in {"tt1234567", "tt7654321"} -> 7
      [] id = "tt12" -> 2
      [] OTHER -> 0

\* CONFIG.PATTERNS.IMDB_ID: /^tt\d{7,8}$/
IMDB_ID(id) == digitsOf(id) \in 7..8

\* What follows "imdb.com/title/" in the page, "null" when the page has no
\* such link; findIMDbIdInPage (lines 117-137) captures (tt\d+)
PageIds == {"null", "tt", "tt1234567", "tt12"}
findIMDbIdInPage(html) ==
    IF html # "null" /\ digitsOf(html) >= 1 THEN html ELSE "null"

\* The item of a Plex metadata reply: its Guid list holds one IMDb guid or none
Metadatas ==
    [title : {"Inception"}, originalTitle : {"Origine", ""},
     year : {2010}, guid : {"null", "tt1234567"}]

\* PlexAPIClient.extractIMDbId, lines 271-298: the guid after "imdb://"
\* matched against (tt\d+)
extractIMDbId(metadata) ==
    IF metadata.guid # "null" /\ digitsOf(metadata.guid) >= 1
    THEN metadata.guid ELSE "null"

\* getBestSearchTerms that searches by the displayed title only
getBestSearchTermsTitleOnly(metadata) ==
    [title |-> metadata.title, originalTitle |-> metadata.title,
     year |-> metadata.year]

\* PlexAPIClient.getBestSearchTerms, lines 306-315
getBestSearchTerms(metadata) ==
    [title |-> metadata.title,
     originalTitle |-> IF metadata.originalTitle # "" THEN metadata.originalTitle
                       ELSE metadata.title,
     year |-> metadata.year]

\* What follows "/library/metadata/" in the URL, "null" when the URL has no
\* rating key; extractRatingKey (lines 166-187) captures (\d+)
RatingKeys == {"null", "42"}
extractRatingKey(url) == url

\* The replies of the local server: a status, and a body that is not JSON,
\* or holds no MediaContainer.Metadata[0], or holds one
PlexStatuses == {200, 404}
PlexBodies ==
    {[json |-> FALSE, Metadata |-> <<>>], [json |-> TRUE, Metadata |-> <<>>]}
    \cup {[json |-> TRUE, Metadata |-> <<m>>] : m \in Metadatas}

\* fetchMetadata's results: null, or the metadata item
NoMetadata == [none |-> TRUE]
Item(m) == [none |-> FALSE, metadata |-> m]

\* PlexAPIClient.isAvailable, lines 156-158
isAvailable == plexToken # "null" /\ plexUrl # "null"

\* The bodies the provider replies with; response.json() throws on the last
Bodies ==
    {[Response |-> "True", imdbID |-> "tt7654321", Error |-> "null"],
     [Response |-> "True", imdbID |-> "null", Error |-> "null"],
     [Response |-> "False", imdbID |-> "null", Error |-> "Movie not found!"],
     [Response |-> "False", imdbID |-> "null", Error |-> "null"],
     [Response |-> "invalid", imdbID |-> "null", Error |-> "null"]}

IdleResolver ==
    [pc |-> "idle", api |-> "resolveIMDbId", id |-> "null",
     title |-> "", year |-> 0, pageId |-> "null",
     result |-> "none", error |-> "none", key |-> <<>>,
     plexCalls |-> 0, omdbCalls |-> 0, fetches |-> 0, plexTitle |-> "",
     plexFetches |-> 0, plexDue |-> 0, plexError |-> "none",
     ratingKey |-> "null", plexMeta |-> NoMetadata, searches |-> <<>>,
     replies |-> <<>>]

\* The state a resolver step works on; fetch: it has called fetchWithRetry
World == [rs |-> rs, cache |-> cache, hits |-> hits, misses |-> misses,
          lru |-> lru, calls |-> calls,
          fetch |-> FALSE]

return(w, id) == [w EXCEPT !.rs.pc = "returned", !.rs.result = id]
throw(w, err) == [w EXCEPT !.rs.pc = "thrown", !.rs.error = err]

\* A title that is not a string
NonString == "[object Object]"

\* OMDBClient.searchByTitle, lines 140-147: the query, its year kept only
\* when it matches the pattern
params(title, year) ==
    <<"t", title, "y", IF year # 0 /\ validYear(year) THEN year ELSE 0>>

\* OMDBClient.getByIMDbId, lines 163-166: the query
idParams(imdbId) == <<"i", imdbId, "plot", "short">>

\* OMDBClient.request, lines 85-90: the cache key is the serialized query,
\* the API key first
cacheKey(key, q) == <<key>> \o q

\* resolveIMDbId, lines 100-110: the reply of the search with the DOM title
afterDom(w, data) ==
    LET w1 == [w EXCEPT !.rs.replies = Append(@, data)]
    IN  IF data.imdbID # "null" THEN return(w1, data.imdbID)
        ELSE return(w1, "null")

\* request() that goes to the network without looking in the cache
requestNoCache(w, q, pc) ==
    IF apiKey = "null" THEN throw(w, "API key not configured")
    ELSE [w EXCEPT !.rs.pc = pc, !.rs.key = cacheKey(apiKey, q),
                   !.fetch = TRUE, !.rs.fetches = @ + 1]

\* request() that does not test the API key
requestNoKeyCheck(w, q, pc) ==
    LET k == cacheKey(apiKey, q)
        r == get(w.cache, k, now)
        w1 == [w EXCEPT !.lru = Accessed(@, k, now), !.calls = Called(@)]
    IN  IF r.hit
        THEN [w1 EXCEPT !.cache = r.cache, !.hits = @ + 1,
                        !.rs.pc = pc, !.rs.key = k]
        ELSE [w1 EXCEPT !.cache = r.cache, !.misses = @ + 1,
                        !.rs.pc = pc, !.rs.key = k, !.fetch = TRUE,
                        !.rs.fetches = @ + 1]

\* OMDBClient.request up to the fetchWithRetry call (lines 78-105); pc is
\* where the caller awaits the reply
request(w, q, pc) ==
    IF apiKey = "null" THEN throw(w, "API key not configured")
    ELSE LET k == cacheKey(apiKey, q)
             r == get(w.cache, k, now)
             w1 == IF ENABLE_CACHE
                   THEN [w EXCEPT !.lru = Accessed(@, k, now),
                                  !.calls = Called(@)]
                   ELSE w
         IN  IF ~ENABLE_CACHE
             THEN [w1 EXCEPT !.rs.pc = pc, !.rs.key = k, !.fetch = TRUE,
                             !.rs.fetches = @ + 1]
             ELSE IF r.hit
             THEN [w1 EXCEPT !.cache = r.cache, !.hits = @ + 1,
                             !.rs.pc = pc, !.rs.key = k]
             ELSE [w1 EXCEPT !.cache = r.cache, !.misses = @ + 1,
                             !.rs.pc = pc, !.rs.key = k, !.fetch = TRUE,
                             !.rs.fetches = @ + 1]

\* searchByTitle that passes any title on to request()
searchUnvalidated(w, title, year, pc) ==
    request([w EXCEPT !.rs.omdbCalls = @ + 1,
                      !.rs.searches = Append(@, <<title, year>>)],
            params(title, year), pc)

\* OMDBClient.searchByTitle, lines 135-150
search(w, title, year, pc) ==
    LET w0 == [w EXCEPT !.rs.omdbCalls = @ + 1,
                        !.rs.searches = Append(@, <<title, year>>)]
    IN  IF title = "" \/ title = NonString
        THEN throw(w0, "Invalid title parameter")
        ELSE request(w0, params(title, year), pc)

\* OMDBClient.getByIMDbId, lines 157-167
getByIMDbId(w, imdbId, pc) ==
    LET w0 == [w EXCEPT !.rs.omdbCalls = @ + 1]
    IN  IF ~IMDB_ID(imdbId) THEN throw(w0, "Invalid IMDb ID format")
        ELSE request(w0, idParams(imdbId), pc)

\* The value request() returned from the cache at line 97, if it did
Cached(w0, w, title, year) ==
    get(w0.cache, cacheKey(apiKey, params(title, year)), now).value

\* strategy 3 with the year of the page left out of the search
strategy3NoYear(w) ==
    LET w1 == search(w, w.rs.title, 0, "omdbDom")
    IN  IF w1.rs.pc = "omdbDom" /\ ~w1.fetch
        THEN afterDom(w1, Cached(w, w1, w.rs.title, 0))
        ELSE w1

\* resolveIMDbId, lines 93-110: strategy 3
strategy3(w) ==
    LET w1 == search(w, w.rs.title, w.rs.year, "omdbDom")
    IN  IF w1.rs.pc = "omdbDom" /\ ~w1.fetch
        THEN afterDom(w1, Cached(w, w1, w.rs.title, w.rs.year))
        ELSE w1

\* resolveIMDbId, lines 78-85: the reply of the search with the Plex title
afterPlexSearch(w, data) ==
    LET w1 == [w EXCEPT !.rs.replies = Append(@, data)]
    IN  IF data.imdbID # "null" THEN return(w1, data.imdbID)
        ELSE strategy3(w1)

\* resolveIMDbId that returns null when the local server gives no data
afterPlexGivesUp(w, plexData) ==
    IF plexData.none THEN return(w, "null")
    ELSE IF plexData.imdbId # "null" THEN return(w, plexData.imdbId)
    ELSE LET terms == plexData.searchTerms
             w0 == [w EXCEPT !.rs.plexTitle = terms.originalTitle]
             w1 == search(w0, terms.originalTitle, terms.year, "omdbPlex")
         IN  IF w1.rs.pc = "omdbPlex" /\ ~w1.fetch
             THEN afterPlexSearch(w1, Cached(w0, w1, terms.originalTitle,
                                             terms.year))
             ELSE w1

\* resolveIMDbId, lines 56-91: what follows getIMDbDataFromPage
afterPlex(w, plexData) ==
    IF plexData.none THEN strategy3(w)
    ELSE IF plexData.imdbId # "null" THEN return(w, plexData.imdbId)
    ELSE LET terms == plexData.searchTerms
             w0 == [w EXCEPT !.rs.plexTitle = terms.originalTitle]
             w1 == search(w0, terms.originalTitle, terms.year, "omdbPlex")
         IN  IF w1.rs.pc = "omdbPlex" /\ ~w1.fetch
             THEN afterPlexSearch(w1, Cached(w0, w1, terms.originalTitle,
                                             terms.year))
             ELSE w1

\* getIMDbDataFromPage, lines 334-367: fetchMetadata has returned
afterMetadata(w, meta) ==
    afterPlex(w, IF meta.none THEN [none |-> TRUE]
                 ELSE [none |-> FALSE, imdbId |-> extractIMDbId(meta.metadata),
                       searchTerms |-> getBestSearchTerms(meta.metadata)])

\* fetchMetadata, line 200: `plex_metadata_${ratingKey}`
plexCacheKey(ratingKey) == <<"plex_metadata", ratingKey>>

\* fetchMetadata, lines 194-222: up to the fetch() it awaits
fetchMetadata(w, ratingKey) ==
    IF ~isAvailable THEN afterMetadata([w EXCEPT !.rs.plexMeta = NoMetadata],
                                       NoMetadata)
    ELSE LET k == plexCacheKey(ratingKey)
             r == get(w.cache, k, now)
             w1 == [w EXCEPT !.cache = r.cache,
                             !.hits = IF r.hit THEN @ + 1 ELSE @,
                             !.misses = IF r.hit THEN @ ELSE @ + 1,
                             !.lru = Accessed(@, k, now),
                             !.calls = Called(@),
                             !.rs.ratingKey = ratingKey]
         IN  IF r.hit
             THEN afterMetadata([w1 EXCEPT !.rs.plexMeta = Item(r.value)],
                                Item(r.value))
             ELSE [w1 EXCEPT !.rs.pc = "plex", !.rs.plexFetches = @ + 1,
                             !.rs.plexDue = PLEX_API_TIMEOUT_MS]

\* getIMDbDataFromPage, lines 321-334
getIMDbDataFromPage(w) ==
    IF extractRatingKey(href) = "null"
    THEN afterPlex(w, [none |-> TRUE])
    ELSE fetchMetadata(w, extractRatingKey(href))

\* fetchMetadata with a catch block that throws the error on
plexCatchRethrows(w, err) ==
    throw([w EXCEPT !.rs.plexError = err, !.rs.plexDue = 0], err)

\* fetchMetadata, lines 253-263: the catch block logs and returns null
plexCatch(w, err) ==
    afterMetadata([w EXCEPT !.rs.plexError = err, !.rs.plexMeta = NoMetadata,
                            !.rs.plexDue = 0], NoMetadata)

\* fetchMetadata, lines 224-251: the fetch() has resolved with a response
onPlexResponse(w, status, body) ==
    IF ~ok(status) THEN plexCatch(w, "Error")
    ELSE IF ~body.json THEN plexCatch(w, "SyntaxError")
    ELSE IF body.Metadata = <<>>
    THEN afterMetadata([w EXCEPT !.rs.plexMeta = NoMetadata, !.rs.plexDue = 0],
                       NoMetadata)
    ELSE LET k == plexCacheKey(w.rs.ratingKey)
             m == body.Metadata[1]
         IN  afterMetadata(
                [w EXCEPT !.cache = set(@, k, m, now),
                          !.lru = Written(@, k, m, now, evictedKeys(w.cache)),
                          !.rs.plexMeta = Item(m), !.rs.plexDue = 0],
                Item(m))

\* resolveIMDbId with the local server asked before the page is scanned
resolveIMDbIdPlexFirst(w) ==
    IF isAvailable
    THEN getIMDbDataFromPage([w EXCEPT !.rs.plexCalls = @ + 1])
    ELSE IF findIMDbIdInPage(page) # "null"
    THEN return(w, findIMDbIdInPage(page))
    ELSE strategy3(w)

\* resolveIMDbId, lines 23-47: strategy 1 and the start of strategy 2
resolveIMDbId(w) ==
    IF findIMDbIdInPage(page) # "null"
    THEN return(w, findIMDbIdInPage(page))
    ELSE IF isAvailable
    THEN getIMDbDataFromPage([w EXCEPT !.rs.plexCalls = @ + 1])
    ELSE strategy3(w)

\* request() has returned data to a caller that is not the resolver
afterRequest(w, data) ==
    [w EXCEPT !.rs.pc = "returned", !.rs.replies = Append(@, data),
              !.rs.result = data.imdbID]

\* What follows request() in its caller
afterReply(w, data) ==
    IF w.rs.pc = "omdbPlex" THEN afterPlexSearch(w, data)
    ELSE IF w.rs.pc = "omdbDom" THEN afterDom(w, data)
    ELSE afterRequest(w, data)

\* request() that caches every reply it can parse
afterFetchCachesAll(w, s, body) ==
    IF s.pc = "thrown" THEN throw(w, s.result)
    ELSE IF body.Response = "invalid" THEN throw(w, "SyntaxError")
    ELSE LET w1 == [w EXCEPT !.cache = set(@, w.rs.key, body, now),
                             !.lru = Written(@, w.rs.key, body, now,
                                             evictedKeys(w.cache))]
         IN  IF body.Response # "True"
             THEN throw(w1, IF body.Error # "null" THEN body.Error
                            ELSE "API request failed")
             ELSE afterReply(w1, body)

\* OMDBClient.request, lines 106-125: the fetch has settled
afterFetch(w, s, body) ==
    IF s.pc = "thrown" THEN throw(w, s.result)
    ELSE IF body.Response = "invalid" THEN throw(w, "SyntaxError")
    ELSE IF body.Response # "True"
    THEN throw(w, IF body.Error # "null" THEN body.Error
                  ELSE "API request failed")
    ELSE LET w1 == IF ENABLE_CACHE
                   THEN [w EXCEPT !.cache = set(@, w.rs.key, body, now),
                                  !.lru = Written(@, w.rs.key, body, now,
                                                  evictedKeys(w.cache))]
                   ELSE w
         IN  afterReply(w1, body)

\* omdbClient.searchByTitle(title, year) called by another caller than
\* the resolver
clientSearch(w, title, year) ==
    LET w1 == search(w, title, year, "request")
    IN  IF w1.rs.pc = "request" /\ ~w1.fetch
        THEN afterRequest(w1, get(w.cache, w1.rs.key, now).value)
        ELSE w1

\* omdbClient.getByIMDbId(imdbId)
clientGetById(w, imdbId) ==
    LET w1 == getByIMDbId(w, imdbId, "request")
    IN  IF w1.rs.pc = "request" /\ ~w1.fetch
        THEN afterRequest(w1, get(w.cache, w1.rs.key, now).value)
        ELSE w1

\* A resolver step has run: its frame, the cache, and the fetchWithRetry
\* call it has made, if any
Resolved(w) ==
    /\ rs' = w.rs
    /\ cache' = w.cache
    /\ hits' = w.hits
    /\ misses' = w.misses
    /\ last' = last
    /\ lru' = w.lru
    /\ calls' = w.calls
    /\ IF w.fetch
       THEN LET s0 == [IdleFrame EXCEPT !.api = "fetch",
                                       !.maxRetries = MAX_RETRY_ATTEMPTS]
            IN  \E c \in Fetchers : Step(c, s0, acquire(s0, requests, 0, now))
       ELSE /\ st' = [c \in Callers |-> IF c \in Fetchers THEN IdleFrame
                                        ELSE st[c]]
            /\ UNCHANGED <<requests, sent, stamps>>
    /\ UNCHANGED <<maxRequests, windowMs, probe, maxSize, ttl, page, href, apiKey,
                   plexToken, plexUrl, settingsVars, contentVars, workerVars>>

\* metadataResolver.resolveIMDbId(movieInfo)
Resolve(title, year) ==
    /\ rs.pc \in {"idle", "returned", "thrown"}
    /\ hits + misses < MaxResolverLookups
    /\ Resolved(resolveIMDbId(
          [World EXCEPT !.rs = [IdleResolver EXCEPT !.title = title,
                                                   !.year = year,
                                                   !.pageId = page]]))

\* The fetch() of fetchMetadata resolves with a response
PlexResponds(status, body) ==
    /\ rs.pc = "plex"
    /\ Resolved(onPlexResponse(World, status, body))

\* The fetch() of fetchMetadata rejects with a network failure (TypeError)
PlexFails ==
    /\ rs.pc = "plex"
    /\ Resolved(plexCatch(World, "TypeError"))

\* fetchMetadata, line 214: the timeout timer fires, controller.abort();
\* the fetch() in flight rejects with an AbortError
PlexTimeoutFires ==
    /\ rs.pc = "plex" /\ now >= rs.plexDue
    /\ Resolved(plexCatch(World, "AbortError"))

\* omdbClient.searchByTitle(title, year), called from the content script
SearchByTitle(title, year) ==
    /\ rs.pc \in {"idle", "returned", "thrown"}
    /\ calls.made < MaxLookups
    /\ Resolved(clientSearch(
          [World EXCEPT !.rs = [IdleResolver EXCEPT !.title = title,
                                                   !.year = year,
                                                   !.api = "searchByTitle"]],
          title, year))

\* omdbClient.getByIMDbId(imdbId), called from the content script
GetByIMDbId(imdbId) ==
    /\ rs.pc \in {"idle", "returned", "thrown"}
    /\ calls.made < MaxLookups
    /\ Resolved(clientGetById(
          [World EXCEPT !.rs = [IdleResolver EXCEPT !.id = imdbId,
                                                   !.api = "getByIMDbId"]],
          imdbId))

\* loadApiKey, lines 49-50: the read of the stored key completes, between
\* two calls of the client (a call in flight holds the key it started with)
LoadApiKey(value) ==
    /\ rs.pc \in {"idle", "returned", "thrown"}
    /\ apiKey' = value
    /\ UNCHANGED <<limiterVars, cacheVars, page, href, plexToken, plexUrl, rs,
                   settingsVars, contentVars, workerVars>>

\* fetchWithRetry has settled and request() goes on
RequestSettles(body) ==
    /\ rs.pc \in {"omdbPlex", "omdbDom", "request"}
    /\ \E c \in Fetchers :
          /\ st[c].pc \in {"returned", "thrown"}
          /\ Resolved(afterFetch(World, st[c], body))

\* A step of the fetchWithRetry call that request() awaits; the ratings
\* provider sends no Retry-After header
FetchStep ==
    /\ rs.pc \in {"omdbPlex", "omdbDom", "request"}
    /\ \E c \in Fetchers :
          \/ AcquireWake(c)
          \/ \E status \in Statuses : FetchResponds(c, status, -1)
          \/ FetchFails(c)
          \/ TimeoutFires(c)
          \/ SleepWake(c)
    /\ UNCHANGED <<cacheVars, resolverVars>>

\* The page the user is looking at changes
Navigate(html, url) ==
    /\ rs.pc \in {"idle", "returned", "thrown"}
    /\ hits + misses < MaxResolverLookups
    /\ page' = html
    /\ href' = url
    /\ UNCHANGED <<limiterVars, cacheVars, apiKey, plexToken, plexUrl, rs,
                   settingsVars, contentVars, workerVars>>

\* d milliseconds pass
Pass(d) ==
    /\ requests' = Aged(requests, d)
    /\ st' = [c \in Callers |-> Later(st[c], d)]
    /\ sent' = InLog(sent, d)
    /\ stamps' = InLog(stamps, d)
    /\ cache' = AgedCache(cache, d)
    /\ lru' = AgedCache(lru, d)
    /\ rs' = [rs EXCEPT !.plexDue = Max(@ - d, 0)]
    /\ UNCHANGED <<maxRequests, windowMs, probe, maxSize, ttl, hits, misses, last,
                   calls>>
    /\ UNCHANGED <<page, href, apiKey, plexToken, plexUrl, settingsVars,
                   contentVars, workerVars>>

\* Time passes: by one tick, or up to the time a pending timer falls due.
\* With prompt timers no time passes while a timer is due.
Advance(prompt) ==
    \E d \in {TickMs} \cup {t \in Dues : t > 0} :
        /\ prompt => \A t \in Dues : d <= t
        /\ Pass(d)

\* Time passes, half a ttl at a time
Elapse == Pass(ttl \div 2)

\* Time passes, beyond the expiry of every cached entry
Expire == Pass(ttl + 1)

\* Time passes until the next pending timer falls due
NextTimer ==
    /\ Dues # {} /\ \A t \in Dues : t > 0
    /\ \E d \in Dues : (\A t \in Dues : d <= t) /\ Pass(d)

\* apiCache = new LRUCache(CONFIG.CACHE_MAX_SIZE, CONFIG.CACHE_TTL_MINUTES),
\* its size and ttl scaled down to MaxCacheSize entries and MaxTtlMinutes
InitApiCache ==
    /\ cache = <<>>
    /\ maxSize = MaxCacheSize
    /\ ttl = MaxTtlMinutes * 60 * 1000
    /\ hits = 0
    /\ misses = 0
    /\ last = NoOp
    /\ lru = <<>>
    /\ calls = NoCalls

\* The browser's tab, and a tab that has not been opened
Tabs == {1}
NoTab == [open |-> FALSE, url |-> "none", status |-> "none", doc |-> 0,
          files |-> {}]

\* Nothing is stored, no settings event or read is pending, and the
\* content script has no trigger to handle
NoSettings == [omdbApiKey |-> "null", plexToken |-> "null", plexUrl |-> "null"]
InitScript ==
    /\ stored = NoSettings
    /\ notices = <<>>
    /\ reads = <<>>
    /\ readLog = [omdb |-> FALSE, plex |-> FALSE]
    /\ saves = 0
    /\ isProcessing = FALSE
    /\ urlObserver = TRUE
    /\ jobs = <<>>
    /\ ids = <<>>
    /\ rated = <<>>
    /\ links = <<>>
    /\ injectedTabs = {}
    /\ savedTabs = {}
    /\ tabs = [t \in Tabs |-> NoTab]
    /\ runs = <<>>

\* The page holds no id, no credentials are loaded, no resolution runs
InitPage ==
    /\ page = "null"
    /\ href = "null"
    /\ apiKey = "null"
    /\ plexToken = "null"
    /\ plexUrl = "null"
    /\ rs = IdleResolver
    /\ InitScript

Init ==
    /\ maxRequests \in 1..MaxLimit
    /\ windowMs \in {k * TickMs : k \in 1..MaxWindowTicks}
    /\ requests = <<>>
    /\ st = [c \in Callers |-> IdleFrame]
    /\ sent = <<>>
    /\ stamps = <<>>
    /\ probe = NoProbe
    /\ InitApiCache
    /\ InitPage

\* Callers of rateLimiter.acquire() alone
NextLimiter ==
    \/ \E c \in Callers : CallAcquire(c) /\ UNCHANGED <<cacheVars, resolverVars>>
    \/ \E c \in Callers : AcquireWake(c) /\ UNCHANGED <<cacheVars, resolverVars>>
    \/ Advance(FALSE)

SpecLimiter == Init /\ [][NextLimiter]_vars

\* Two callers of acquire(), and the status queries of the client
\* (OMDBClient.getRateLimitStatus, src/api-client.js:199-201)
Askers == {1, 2}
NextStatus ==
    \/ \E c \in Askers : CallAcquire(c) /\ UNCHANGED <<cacheVars, resolverVars>>
    \/ \E c \in Askers : AcquireWake(c) /\ UNCHANGED <<cacheVars, resolverVars>>
    \/ Advance(FALSE)
    \/ CanRequest /\ UNCHANGED <<cacheVars, resolverVars>>
    \/ GetStatus /\ UNCHANGED <<cacheVars, resolverVars>>

SpecStatus == Init /\ [][NextStatus]_vars

InitFetch ==
    /\ maxRequests = FetchLimit
    /\ windowMs = FetchWindowTicks * TickMs
    /\ requests = <<>>
    /\ st = [c \in Callers |-> IdleFrame]
    /\ sent = <<>>
    /\ stamps = <<>>
    /\ probe = NoProbe
    /\ InitApiCache
    /\ InitPage

\* The caller of fetchWithRetry, on the global limiter
NextFetch ==
    \/ \E c \in Fetchers : CallFetch(c) /\ UNCHANGED <<cacheVars, resolverVars>>
    \/ \E c \in Fetchers : AcquireWake(c) /\ UNCHANGED <<cacheVars, resolverVars>>
    \/ \E c \in Fetchers, status \in Statuses :
          \E header \in IF status = 429 THEN RetryAfters ELSE {-1} :
             FetchResponds(c, status, header) /\ UNCHANGED <<cacheVars, resolverVars>>
    \/ \E c \in Fetchers : FetchFails(c) /\ UNCHANGED <<cacheVars, resolverVars>>
    \/ \E c \in Fetchers : TimeoutFires(c) /\ UNCHANGED <<cacheVars, resolverVars>>
    \/ \E c \in Fetchers : SleepWake(c) /\ UNCHANGED <<cacheVars, resolverVars>>
    \/ Advance(TRUE)

SpecFetch == InitFetch /\ [][NextFetch]_vars

\* An LRUCache of any size and ttl in the bounds, and its callers
InitCache ==
    /\ maxRequests = FetchLimit
    /\ windowMs = FetchWindowTicks * TickMs
    /\ requests = <<>>
    /\ st = [c \in Callers |-> IdleFrame]
    /\ sent = <<>>
    /\ stamps = <<>>
    /\ probe = NoProbe
    /\ cache = <<>>
    /\ maxSize \in 1..MaxCacheSize
    /\ ttl = MaxTtlMinutes * 60 * 1000
    /\ hits = 0
    /\ misses = 0
    /\ last = NoOp
    /\ lru = <<>>
    /\ calls = NoCalls
    /\ InitPage

NextCache ==
    \/ \E key \in Keys : Get(key) /\ UNCHANGED <<limiterVars, resolverVars>>
    \/ \E key \in Keys : Has(key) /\ UNCHANGED <<limiterVars, resolverVars>>
    \/ \E key \in Keys, value \in Values : Set(key, value) /\ UNCHANGED <<limiterVars, resolverVars>>
    \/ \E key \in Keys : Delete(key) /\ UNCHANGED <<limiterVars, resolverVars>>
    \/ Clear /\ UNCHANGED <<limiterVars, resolverVars>>
    \/ Elapse

SpecCache == InitCache /\ [][NextCache]_vars

\* A cache of LruMaxSize entries written and read under one key more
LruKeys == {"k1", "k2", "k3", "k4"}

InitLru ==
    /\ maxRequests = MaxLimit
    /\ windowMs = MaxWindowTicks * TickMs
    /\ requests = <<>>
    /\ st = [c \in Callers |-> IdleFrame]
    /\ sent = <<>>
    /\ stamps = <<>>
    /\ probe = NoProbe
    /\ cache = <<>>
    /\ maxSize = LruMaxSize
    /\ ttl = MaxTtlMinutes * 60 * 1000
    /\ hits = 0
    /\ misses = 0
    /\ last = NoOp
    /\ lru = <<>>
    /\ calls = NoCalls
    /\ InitPage

NextLru ==
    \/ \E key \in LruKeys : Set(key, "v1") /\ UNCHANGED <<limiterVars, resolverVars>>
    \/ \E key \in LruKeys : Get(key) /\ UNCHANGED <<limiterVars, resolverVars>>
    \/ \E key \in LruKeys : Has(key) /\ UNCHANGED <<limiterVars, resolverVars>>

SpecLru == InitLru /\ [][NextLru]_vars

\* A page with or without an embedded id, the clients configured or not
InitResolver ==
    /\ maxRequests = FetchLimit
    /\ windowMs = FetchWindowTicks * TickMs
    /\ requests = <<>>
    /\ st = [c \in Callers |-> IdleFrame]
    /\ sent = <<>>
    /\ stamps = <<>>
    /\ probe = NoProbe
    /\ InitApiCache
    /\ page \in PageIds
    /\ href \in RatingKeys
    /\ apiKey \in {"null", "key"}
    /\ plexToken \in {"null", "token"}
    /\ plexUrl \in IF plexToken = "null" THEN {"null"} ELSE {"null", "url"}
    /\ rs = IdleResolver
    /\ InitScript

NextResolver ==
    \/ \E title \in Titles, year \in Years : Resolve(title, year)
    \/ \E status \in PlexStatuses, body \in PlexBodies :
          PlexResponds(status, body)
    \/ PlexFails
    \/ PlexTimeoutFires
    \/ \E body \in Bodies : RequestSettles(body)
    \/ FetchStep
    \/ \E html \in PageIds, url \in RatingKeys : Navigate(html, url)
    \/ NextTimer
    \/ Expire

SpecResolver == InitResolver /\ [][NextResolver]_vars

\* The ratings client called directly, its API key set or not and reloaded
ApiKeys == {"null", "key"}
ClientTitles == Titles \cup {NonString}
ClientYears == {2010}
ClientIds == {"tt1234567", "tt12"}

InitClient ==
    /\ maxRequests = FetchLimit
    /\ windowMs = FetchWindowTicks * TickMs
    /\ requests = <<>>
    /\ st = [c \in Callers |-> IdleFrame]
    /\ sent = <<>>
    /\ stamps = <<>>
    /\ probe = NoProbe
    /\ InitApiCache
    /\ page = "null"
    /\ href = "null"
    /\ apiKey \in ApiKeys
    /\ plexToken = "null"
    /\ plexUrl = "null"
    /\ rs = IdleResolver
    /\ InitScript

NextClient ==
    \/ \E title \in ClientTitles, year \in ClientYears : SearchByTitle(title, year)
    \/ \E imdbId \in ClientIds : GetByIMDbId(imdbId)
    \/ \E value \in ApiKeys : LoadApiKey(value)
    \/ \E body \in Bodies : RequestSettles(body)
    \/ FetchStep
    \/ NextTimer
    \/ Expire

SpecClient == InitClient /\ [][NextClient]_vars

\* ------------------------------------------------------------------------
\* The settings store and the clients' credentials (src/api-client.js
\* lines 10-62, src/unnamed/part_002 lines 95-158, src/unnamed/part_007)

\* What the popup stores: an API key or none; a token and a URL, both
\* empty strings, or neither
PlexPairs == {<<"null", "null">>, <<"", "">>, <<"token", "url">>}
Settings ==
    {[omdbApiKey |-> k, plexToken |-> p[1], plexUrl |-> p[2]] :
        k \in ApiKeys, p \in PlexPairs}

\* The keys of an onChanged event: those whose value has changed
Changed(old, new) ==
    {f \in {"omdbApiKey", "plexToken", "plexUrl"} : old[f] # new[f]}

\* chrome.storage.sync.set/remove: the store changes and, when a value has
\* changed, an onChanged event is sent
Write(new) ==
    /\ saves < MaxChanges
    /\ stored' = new
    /\ notices' = IF Changed(stored, new) = {} THEN notices
                  ELSE Append(notices, Changed(stored, new))
    /\ saves' = saves + 1
    /\ UNCHANGED <<limiterVars, cacheVars, page, href, apiKey, plexToken,
                   plexUrl, rs, reads, readLog, contentVars, workerVars>>

\* The popup saves or removes the API key
SaveApiKey(key) == Write([stored EXCEPT !.omdbApiKey = key])

\* The popup saves or removes the token and the URL
SavePlex(pair) ==
    Write([stored EXCEPT !.plexToken = pair[1], !.plexUrl = pair[2]])

\* OMDBClient's listener, api-client.js line 22, with a misspelt key
omdbReloadsOtherKey(changes) == "apiKey" \in changes

\* OMDBClient's listener, api-client.js line 22: changes.omdbApiKey
omdbReloads(changes) == "omdbApiKey" \in changes

\* PlexAPIClient's listener, part_002 line 106
plexReloads(changes) == "plexToken" \in changes \/ "plexUrl" \in changes

\* A storage.get() just issued by loadApiKey or loadCredentials
Pending(who) ==
    [who |-> who, done |-> FALSE, failed |-> FALSE, result |-> NoSettings]

\* An onChanged event is delivered to the two listeners, which reload
Deliver ==
    /\ notices # <<>>
    /\ notices' = Tail(notices)
    /\ reads' = reads
                 \o (IF omdbReloads(Head(notices)) THEN <<Pending("omdb")>>
                     ELSE <<>>)
                 \o (IF plexReloads(Head(notices)) THEN <<Pending("plex")>>
                     ELSE <<>>)
    /\ UNCHANGED <<limiterVars, cacheVars, page, href, apiKey, plexToken,
                   plexUrl, rs, stored, readLog, saves, contentVars, workerVars>>

\* StorageUtils.get, part_007 lines 20-47: the stored values over the
\* defaults, or the defaults when chrome.runtime.lastError is set
storageGet(failed) == IF failed THEN NoSettings ELSE stored

\* The store answers the oldest read it has not answered yet
StorageAnswers(failed) ==
    /\ \E i \in 1..Len(reads) :
          /\ ~reads[i].done
          /\ \A j \in 1..(i - 1) : reads[j].done
          /\ reads' = [reads EXCEPT ![i] = [@ EXCEPT !.done = TRUE,
                                                     !.failed = failed,
                                                     !.result = storageGet(failed)]]
    /\ UNCHANGED <<limiterVars, cacheVars, page, href, apiKey, plexToken,
                   plexUrl, rs, stored, notices, readLog, saves, contentVars, workerVars>>

\* `x || null`
orNull(x) == IF x = "" THEN "null" ELSE x

\* loadApiKey, lines 49-50, and loadCredentials, lines 131-137: the
\* oldest read resolves and the client takes its values
ReadCompletes ==
    /\ reads # <<>> /\ Head(reads).done
    /\ reads' = Tail(reads)
    /\ readLog' = [readLog EXCEPT ![Head(reads).who] = Head(reads).failed]
    /\ IF Head(reads).who = "omdb"
       THEN /\ apiKey' = Head(reads).result.omdbApiKey
            /\ UNCHANGED <<plexToken, plexUrl>>
       ELSE /\ plexToken' = orNull(Head(reads).result.plexToken)
            /\ plexUrl' = orNull(Head(reads).result.plexUrl)
            /\ UNCHANGED apiKey
    /\ UNCHANGED <<limiterVars, cacheVars, page, href, rs, stored, notices,
                   saves, contentVars, workerVars>>

\* The clients are constructed: nothing in memory, their first loads issued
InitSettings ==
    /\ maxRequests = FetchLimit
    /\ windowMs = FetchWindowTicks * TickMs
    /\ requests = <<>>
    /\ st = [c \in Callers |-> IdleFrame]
    /\ sent = <<>>
    /\ stamps = <<>>
    /\ probe = NoProbe
    /\ InitApiCache
    /\ page = "null"
    /\ href = "null"
    /\ apiKey = "null"
    /\ plexToken = "null"
    /\ plexUrl = "null"
    /\ rs = IdleResolver
    /\ stored \in Settings
    /\ notices = <<>>
    /\ reads = <<Pending("omdb"), Pending("plex")>>
    /\ readLog = [omdb |-> FALSE, plex |-> FALSE]
    /\ saves = 0
    /\ isProcessing = FALSE
    /\ urlObserver = TRUE
    /\ jobs = <<>>
    /\ ids = <<>>
    /\ rated = <<>>
    /\ links = <<>>
    /\ injectedTabs = {}
    /\ savedTabs = {}
    /\ tabs = [t \in Tabs |-> NoTab]
    /\ runs = <<>>

NextSettings ==
    \/ \E key \in ApiKeys : SaveApiKey(key)
    \/ \E pair \in PlexPairs : SavePlex(pair)
    \/ Deliver
    \/ \E failed \in BOOLEAN : StorageAnswers(failed)
    \/ ReadCompletes

SpecSettings == InitSettings /\ [][NextSettings]_vars

\* The ratings client from its construction on: its first key load is
\* under way while its callers issue title searches
NextStartup ==
    \/ \E failed \in BOOLEAN : StorageAnswers(failed)
    \/ ReadCompletes
    \/ \E title \in Titles, year \in ClientYears : SearchByTitle(title, year)
    \/ \E body \in Bodies : RequestSettles(body)
    \/ FetchStep
    \/ NextTimer

SpecStartup == InitSettings /\ [][NextStartup]_vars

\* ------------------------------------------------------------------------
\* The content script (src/content.js): onUrlChange, waitForElements,
\* addIMDbLink

\* What addIMDbLink finds in the page before it resolves anything
Pages == {"noContainer", "linkExists", "noMovieInfo", "movie"}

\* addIMDbLink without its guard
busyOff(flag) == FALSE

\* addIMDbLink, line 499: if (isProcessing)
busy(flag) == flag

\* addIMDbLink whose early returns leave the flag set
addIMDbLinkNoFinally(j, i, found) ==
    IF busy(isProcessing)
    THEN [jobs |-> [j EXCEPT ![i] = "dropped"], flag |-> isProcessing]
    ELSE IF found = "movie"
    THEN [jobs |-> [j EXCEPT ![i] = "finding"], flag |-> TRUE]
    ELSE [jobs |-> [j EXCEPT ![i] = "done"], flag |-> TRUE]

\* addIMDbLink, lines 497-539, for the trigger's job i: dropped when
\* the flag is set; else the flag is set, and cleared by the finally block
\* unless the call goes on to await findIMDbId
addIMDbLink(j, i, found) ==
    IF busy(isProcessing)
    THEN [jobs |-> [j EXCEPT ![i] = "dropped"], flag |-> isProcessing]
    ELSE IF found = "movie"
    THEN [jobs |-> [j EXCEPT ![i] = "finding"], flag |-> TRUE]
    ELSE [jobs |-> [j EXCEPT ![i] = "done"], flag |-> FALSE]

\* waitForElements, lines 192-194 and 215-218: the element observer in
\* use is disconnected; the call that was waiting on it can only time out
Stranded(j) ==
    [i \in 1..Len(j) |-> IF j[i] = "waiting" THEN "stranded" ELSE j[i]]

\* A step of the content script has run
Scripted(r) ==
    /\ jobs' = r.jobs
    /\ isProcessing' = r.flag
    /\ UNCHANGED <<limiterVars, cacheVars, page, href, apiKey, plexToken,
                   plexUrl, rs, settingsVars, urlObserver, workerVars>>

\* The step has found no id, called no getByIMDbId and added no link
NoLink == UNCHANGED <<ids, rated, links>>

\* content.js findIMDbIdInPage, lines 264-310: the structured data, the meta
\* tags and the page text are matched against CONFIG.PATTERNS.IMDB_ID
scanPage(html) == IF IMDB_ID(html) THEN html ELSE "null"

\* What findIMDbId (lines 359-381) can return: the id of the page scan, or
\* the imdbID of the title search's reply, which is whatever the API sent;
\* null when the search fails or the reply has none
ReplyIds == {"null", "tt1234567", "tt12", "tt"}
FoundIds == {scanPage(html) : html \in PageIds} \cup ReplyIds

\* createIMDbLink without its validation
createIMDbLinkUnchecked(l, id) == Append(l, id)

\* createIMDbLink, lines 411-416, and line 556: the link is appended to the
\* rating container, or the id is rejected and nothing is appended
createIMDbLink(l, id) == IF IMDB_ID(id) THEN Append(l, id) ELSE l

\* The debounced URL change fires on a details page: onUrlChange(), lines
\* 587-605; with the elements present addIMDbLink() runs at once
UrlChange(present, found) ==
    /\ urlObserver
    /\ Len(jobs) < MaxTriggers
    /\ IF present
       THEN Scripted(addIMDbLink(Append(jobs, "called"), Len(jobs) + 1, found))
       ELSE Scripted([jobs |-> Append(Stranded(jobs), "waiting"),
                      flag |-> isProcessing])
    /\ ids' = Append(ids, "null")
    /\ UNCHANGED <<rated, links>>

\* waitForElements, lines 197-206: the elements appear, addIMDbLink() runs
ElementsAppear(i, found) ==
    /\ urlObserver
    /\ jobs[i] = "waiting"
    /\ Scripted(addIMDbLink(jobs, i, found))
    /\ NoLink

\* waitForElements, lines 214-221: the wait times out, onUrlChange catches
WaitTimesOut(i) ==
    /\ urlObserver
    /\ jobs[i] \in {"waiting", "stranded"}
    /\ Scripted([jobs |-> [Stranded(jobs) EXCEPT ![i] = "failed"],
                 flag |-> isProcessing])
    /\ NoLink

\* addIMDbLink, lines 539-556: findIMDbId has settled, with an id or null.
\* Without an id the call returns. getIMDbRating (lines 389-401) calls
\* getByIMDbId (src/api-client.js:157-167), which passes a well-formed id on
\* to request() and throws on any other; getIMDbRating catches that and
\* returns no rating at once, and createIMDbLink is called with the id.
FindSettles(i, id) ==
    /\ urlObserver
    /\ jobs[i] = "finding"
    /\ ids' = [ids EXCEPT ![i] = id]
    /\ IF id = "null"
       THEN /\ Scripted([jobs |-> [jobs EXCEPT ![i] = "done"], flag |-> FALSE])
            /\ UNCHANGED <<rated, links>>
       ELSE IF IMDB_ID(id)
       THEN /\ Scripted([jobs |-> [jobs EXCEPT ![i] = "rating"],
                         flag |-> isProcessing])
            /\ rated' = Append(rated, id)
            /\ UNCHANGED links
       ELSE /\ Scripted([jobs |-> [jobs EXCEPT ![i] = "done"], flag |-> FALSE])
            /\ links' = createIMDbLink(links, id)
            /\ UNCHANGED rated

\* addIMDbLink, lines 550-581: getIMDbRating has settled; the link is
\* added, or createIMDbLink throws and the catch block runs; then finally
RatingSettles(i) ==
    /\ urlObserver
    /\ jobs[i] = "rating"
    /\ Scripted([jobs |-> [jobs EXCEPT ![i] = "done"], flag |-> FALSE])
    /\ links' = createIMDbLink(links, ids[i])
    /\ UNCHANGED <<ids, rated>>

\* cleanup, lines 611-625: the page unloads and the script's context ends
Unload ==
    /\ urlObserver
    /\ urlObserver' = FALSE
    /\ isProcessing' = FALSE
    /\ UNCHANGED <<limiterVars, cacheVars, page, href, apiKey, plexToken,
                   plexUrl, rs, settingsVars, jobs, ids, rated, links,
                   workerVars>>

NextContent ==
    \/ \E present \in BOOLEAN, found \in Pages : UrlChange(present, found)
    \/ \E i \in 1..Len(jobs), found \in Pages : ElementsAppear(i, found)
    \/ \E i \in 1..Len(jobs) : WaitTimesOut(i)
    \/ \E i \in 1..Len(jobs), id \in FoundIds : FindSettles(i, id)
    \/ \E i \in 1..Len(jobs) : RatingSettles(i)
    \/ Unload

\* The script has just been injected: line 21, and nothing has triggered
InitContent == InitFetch

SpecContent == InitContent /\ [][NextContent]_vars

\* ------------------------------------------------------------------------
\* The background service worker (src/background-chrome.js)

\* The pages a tab shows: a Plex page or another one
Urls == {"plex", "other"}

\* isPlexUrl, lines 60-66
isPlexUrl(url) == url = "plex"

\* The sequence without its i-th element
Without(q, i) == SubSeq(q, 1, i - 1) \o SubSeq(q, i + 1, Len(q))

\* The worker's state is unchanged outside the listed variables
Worked ==
    UNCHANGED <<limiterVars, cacheVars, page, href, apiKey, plexToken,
                plexUrl, rs, settingsVars, contentVars>>

\* injectContentScript, lines 75-101: the two early returns, else the
\* first chrome.scripting.executeScript is called and awaited
injectContentScript(tabId, url) ==
    IF tabId \in injectedTabs \/ ~isPlexUrl(url)
    THEN [runs |-> runs, tracked |-> injectedTabs]
    ELSE [runs |-> Append(runs, [tab |-> tabId, file |-> 1]),
          tracked |-> injectedTabs]

\* The user opens a tab, or the tab navigates or reloads: a new document
\* starts to load and the scripts of the old one are gone
Load(t, url) ==
    /\ tabs[t].doc < MaxLoads
    /\ tabs[t].open \/ tabs[t].doc = 0
    /\ tabs' = [tabs EXCEPT ![t] = [open |-> TRUE, url |-> url,
                                    status |-> "loading", doc |-> @.doc + 1,
                                    files |-> {}]]
    /\ UNCHANGED <<injectedTabs, savedTabs, runs>>
    /\ Worked

\* chrome.tabs.onUpdated with status 'complete', lines 132-143
Complete(t) ==
    /\ tabs[t].open /\ tabs[t].status = "loading"
    /\ tabs' = [tabs EXCEPT ![t].status = "complete"]
    /\ LET r == injectContentScript(t, tabs[t].url)
       IN  /\ runs' = r.runs
           /\ injectedTabs' = r.tracked
    /\ UNCHANGED savedTabs
    /\ Worked

\* injectContentScript, lines 96-105: the executeScript awaited by run i
\* resolves, the file has run in the tab's document; after the last file
\* the tab is tracked and the set is saved
Executed(i) ==
    /\ tabs[runs[i].tab].open
    /\ tabs' = [tabs EXCEPT ![runs[i].tab].files = @ \cup {runs[i].file}]
    /\ IF runs[i].file < NFILES
       THEN /\ runs' = [runs EXCEPT ![i].file = @ + 1]
            /\ UNCHANGED <<injectedTabs, savedTabs>>
       ELSE /\ runs' = Without(runs, i)
            /\ injectedTabs' = injectedTabs \cup {runs[i].tab}
            /\ savedTabs' = injectedTabs'
    /\ Worked

\* injectContentScript, lines 107-117: the executeScript awaited by run i
\* rejects: the tab is closed, or its page is one the extension cannot
\* script
Rejected(i) ==
    /\ ~tabs[runs[i].tab].open \/ ~isPlexUrl(tabs[runs[i].tab].url)
    /\ runs' = Without(runs, i)
    /\ injectedTabs' = injectedTabs \ {runs[i].tab}
    /\ savedTabs' = injectedTabs'
    /\ UNCHANGED tabs
    /\ Worked

\* chrome.tabs.onRemoved, lines 148-154: the tab is closed
Removed(t) ==
    /\ tabs[t].open
    /\ tabs' = [tabs EXCEPT ![t] = [NoTab EXCEPT !.doc = tabs[t].doc]]
    /\ injectedTabs' = injectedTabs \ {t}
    /\ savedTabs' = IF t \in injectedTabs THEN injectedTabs' ELSE savedTabs
    /\ UNCHANGED runs
    /\ Worked

\* The 'reloadExtension' message, lines 187-196: every Plex tab is reloaded
\* and taken out of the set, which is not saved
ReloadExtension ==
    /\ \E t \in Tabs : tabs[t].open /\ isPlexUrl(tabs[t].url)
                      /\ tabs[t].doc < MaxLoads
    /\ tabs' = [t \in Tabs |->
                  IF tabs[t].open /\ isPlexUrl(tabs[t].url)
                     /\ tabs[t].doc < MaxLoads
                  THEN [tabs[t] EXCEPT !.status = "loading", !.doc = @ + 1,
                                       !.files = {}]
                  ELSE tabs[t]]
    /\ injectedTabs' = {t \in injectedTabs :
                           ~(tabs[t].open /\ isPlexUrl(tabs[t].url))}
    /\ UNCHANGED <<savedTabs, runs>>
    /\ Worked

\* The idle service worker is stopped and started again: lines 20-30, the
\* set is restored from chrome.storage.local
Restart ==
    /\ runs = <<>>
    /\ injectedTabs # savedTabs
    /\ injectedTabs' = savedTabs
    /\ UNCHANGED <<savedTabs, tabs, runs>>
    /\ Worked

\* The steps of the injections under way
Injecting == \E i \in 1..Len(runs) : Executed(i) \/ Rejected(i)

\* The completion of the page loads under way
Completing == \E t \in Tabs : Complete(t)

NextWorker ==
    \/ \E t \in Tabs, url \in Urls : Load(t, url)
    \/ \E t \in Tabs : Complete(t)
    \/ \E i \in 1..Len(runs) : Executed(i)
    \/ \E i \in 1..Len(runs) : Rejected(i)
    \/ \E t \in Tabs : Removed(t)
    \/ ReloadExtension
    \/ Restart

\* The service worker has started and no tab is open
InitWorker == InitFetch

SpecWorker == InitWorker /\ [][NextWorker]_vars

\* Every page load completes and every executeScript settles
SpecWorkerFair ==
    SpecWorker /\ WF_vars(Completing) /\ WF_vars(Injecting)

\* ------------------------------------------------------------------------
\* Metadata resolver

\* The resolution found no id in the page and went on to a title search
SearchedByTitle ==
    /\ rs.pageId = "null"
    /\ rs.omdbCalls > 0

\* The title search found no match: the provider replied Response 'False'
NoMatchThrown ==
    /\ SearchedByTitle
    /\ rs.pc = "thrown"
    /\ rs.error = "API request failed"

\* C1: when every strategy fails (no id in the page, no id from the local
\* server, the title search finding no match or failing), resolveIMDbId
\* returns null: the call never ends by throwing.
C1_NotFoundIsNotAnException == SearchedByTitle => rs.pc # "thrown"

\* C19: when the page embeds an IMDb identifier, resolveIMDbId returns it
\* and invokes no network client: no call to the local-server client or
\* the ratings client, no fetch, no rate-limiter slot.
C19_PageIdNeedsNoNetwork ==
    [][\A title \in Titles, year \in Years :
         (Resolve(title, year) /\ findIMDbIdInPage(page) # "null")
            => /\ rs'.pc = "returned"
               /\ rs'.result = findIMDbIdInPage(page)
               /\ rs'.plexCalls = 0 /\ rs'.omdbCalls = 0 /\ rs'.fetches = 0
               /\ \A c \in Fetchers : st'[c] = IdleFrame
               /\ UNCHANGED <<requests, sent, stamps, cache, calls>>]_vars

\* Both clients are configured, the page embeds an identifier, and the
\* resolution has returned it without a call to either
C19_Witness ==
    /\ rs.pc = "returned" /\ rs.pageId = "tt1234567"
    /\ rs.result = "tt1234567"
    /\ isAvailable /\ apiKey # "null"
    /\ rs.plexCalls = 0 /\ rs.omdbCalls = 0 /\ rs.fetches = 0

\* The local client was asked and fetchMetadata has returned a metadata item
GotMetadata ==
    /\ rs.pageId = "null"
    /\ rs.plexCalls > 0 /\ rs.pc # "plex"
    /\ ~rs.plexMeta.none

\* C21: with no id in the page and the local client available, the direct
\* IMDb id of the local metadata is returned without a call to the ratings
\* client; when the metadata has none, one title search is made with the
\* metadata's original title (the title when it has no original title) and
\* year, and the id of that search's reply, if it has one, is returned.
C21_LocalServerPath ==
    GotMetadata =>
        LET m == rs.plexMeta.metadata
        IN  IF m.guid # "null"
            THEN /\ rs.pc = "returned" /\ rs.result = m.guid
                 /\ rs.omdbCalls = 0 /\ rs.fetches = 0
            ELSE /\ rs.searches # <<>>
                 /\ rs.searches[1] =
                       <<IF m.originalTitle # "" THEN m.originalTitle
                         ELSE m.title, m.year>>
                 /\ (rs.replies # <<>> /\ rs.replies[1].imdbID # "null")
                       => /\ rs.pc = "returned"
                          /\ rs.result = rs.replies[1].imdbID
                          /\ Len(rs.searches) = 1

\* The local metadata has an original title and no IMDb guid, and the id of
\* the search by that original title has been returned
C21_Witness ==
    /\ GotMetadata
    /\ rs.plexMeta.metadata.guid = "null"
    /\ rs.plexMeta.metadata.originalTitle = "Origine"
    /\ rs.searches = << <<"Origine", 2010>> >>
    /\ rs.pc = "returned" /\ rs.result = "tt7654321"

\* A resolution has started on a page with no id while the local client
\* was unavailable
DirectPath ==
    /\ rs.pc # "idle"
    /\ rs.pageId = "null"
    /\ rs.plexCalls = 0

\* C22: with no id in the page and the local client unavailable,
\* resolveIMDbId makes exactly one title search, with the title and year
\* taken from the DOM, and returns the imdbID of the provider's reply.
C22_DirectPath ==
    DirectPath =>
        /\ ~isAvailable
        /\ rs.searches = << <<rs.title, rs.year>> >>
        /\ rs.omdbCalls = 1 /\ rs.fetches <= 1
        /\ rs.replies # <<>> =>
              /\ rs.pc = "returned"
              /\ rs.result = rs.replies[1].imdbID

\* Inception/2010 was searched once over the network with the local client
\* unavailable, and the imdbID of the reply has been returned
C22_Witness ==
    /\ DirectPath
    /\ rs.searches = << <<"Inception", 2010>> >>
    /\ rs.fetches = 1
    /\ rs.replies = <<[Response |-> "True", imdbID |-> "tt7654321",
                       Error |-> "null"]>>
    /\ rs.pc = "returned" /\ rs.result = "tt7654321"

\* The fetch of the local metadata has ended without a metadata item: it
\* was aborted by its timeout, failed, or was answered without one
MetadataFetchFailed ==
    /\ rs.pageId = "null"
    /\ rs.plexFetches > 0 /\ rs.pc # "plex"
    /\ rs.plexMeta.none

\* C23: when the local client is available and its metadata fetch is
\* aborted by its timeout or fails, resolveIMDbId goes on to the direct
\* strategy: it searches once by the DOM title and year and returns the
\* result of that search.
C23_FailedLocalFetchFallsThrough ==
    MetadataFetchFailed =>
        /\ rs.searches = << <<rs.title, rs.year>> >>
        /\ rs.omdbCalls = 1
        /\ rs.replies # <<>> =>
              /\ rs.pc = "returned"
              /\ rs.result = rs.replies[1].imdbID

\* The local fetch was aborted by its timeout and the id found by the
\* search with the DOM title has been returned
C23_Witness ==
    /\ MetadataFetchFailed
    /\ rs.plexError = "AbortError"
    /\ rs.searches = << <<"Inception", 2010>> >>
    /\ rs.pc = "returned" /\ rs.result = "tt7654321"

\* The fetch of fetchMetadata settles without a metadata item
PlexFetchFailure ==
    \/ PlexTimeoutFires
    \/ PlexFails
    \/ \E status \in PlexStatuses, body \in PlexBodies :
          /\ ~ok(status) \/ ~body.json \/ body.Metadata = <<>>
          /\ PlexResponds(status, body)

\* C24: fetchMetadata never throws: when its fetch times out, fails, is
\* answered with a non-2xx status or with a body without the metadata item,
\* it returns not-found to its caller, which goes on, and the cache gains
\* no entry.
C24_FetchMetadataNeverThrows ==
    [][(rs.pc = "plex" /\ PlexFetchFailure) =>
          /\ rs'.plexMeta.none
          /\ rs'.omdbCalls = 1
          /\ {cache'[i].key : i \in 1..Len(cache')}
                \subseteq {cache[i].key : i \in 1..Len(cache)}
          /\ \A i \in 1..Len(cache') :
                cache'[i].key # plexCacheKey(rs.ratingKey)]_vars

\* The local server answered with a non-2xx status: the resolver has gone
\* on to its title search and the cache is still empty
C24_Witness ==
    /\ MetadataFetchFailed
    /\ rs.plexError = "Error"
    /\ rs.pc = "omdbDom"
    /\ cache = <<>>

\* The access log holds an entry for the key that has not passed its expiry
Live(k) == Found(lru, k, now) \in {"live", "atExpiry"}

\* The step made no network call and took no rate-limiter slot
NoNetwork ==
    /\ rs'.fetches = 0
    /\ \A c \in Fetchers : st'[c] = IdleFrame
    /\ UNCHANGED <<requests, sent, stamps>>

\* The step returned the entry the access log holds for the key
ServedFromCache(k) ==
    /\ rs'.pc = "returned"
    /\ rs'.replies = <<Stored(lru, k)>>
    /\ NoNetwork

\* C25: when request() finds a live cache entry for the serialized query,
\* API key included, it returns the cached response with no network call
\* and no rate-limiter slot taken.
C25_CacheHitNeedsNoNetwork ==
    [][/\ \A title \in ClientTitles, year \in ClientYears :
            (/\ SearchByTitle(title, year)
             /\ title \notin {"", NonString} /\ apiKey # "null"
             /\ Live(cacheKey(apiKey, params(title, year))))
               => ServedFromCache(cacheKey(apiKey, params(title, year)))
       /\ \A imdbId \in ClientIds :
            (/\ GetByIMDbId(imdbId)
             /\ IMDB_ID(imdbId) /\ apiKey # "null"
             /\ Live(cacheKey(apiKey, idParams(imdbId))))
               => ServedFromCache(cacheKey(apiKey, idParams(imdbId)))]_vars

\* A second getByIMDbId call has been answered from the cache
C25_Witness ==
    /\ rs.api = "getByIMDbId" /\ rs.pc = "returned"
    /\ rs.fetches = 0 /\ hits = 1
    /\ rs.replies = <<[Response |-> "True", imdbID |-> "tt7654321",
                       Error |-> "null"]>>
    /\ \A c \in Fetchers : st[c] = IdleFrame

\* The fetchWithRetry call that request() awaits
Awaited == st[CHOOSE c \in Fetchers : TRUE]

\* The cache holds the value under the key
Holds(c, k, value) == \E i \in 1..Len(c) : c[i].key = k /\ c[i].value = value

\* C26: request() adds a response to the cache only when the provider's
\* reply reports success (Response 'True'); when the reply reports failure
\* or the transport fails, request() throws, with the provider's error
\* message when the reply gives one, and the cache is left as it was.
C26_CachesSuccessOnly ==
    [][\A body \in Bodies :
          RequestSettles(body) =>
             IF Awaited.pc = "returned" /\ body.Response = "True"
             THEN /\ rs'.pc = "returned"
                  /\ Holds(cache', rs.key, body)
             ELSE /\ rs'.pc = "thrown"
                  /\ cache' = cache
                  /\ (Awaited.pc = "returned" /\ body.Response = "False"
                      /\ body.Error # "null") => rs'.error = body.Error]_vars

\* The provider answered 'Movie not found!': request() has thrown that
\* message and the cache is empty
C26_Witness ==
    /\ rs.api = "searchByTitle" /\ rs.pc = "thrown"
    /\ rs.error = "Movie not found!"
    /\ rs.fetches = 1
    /\ cache = <<>>

\* The step threw the error, made no network call, took no rate-limiter
\* slot and neither read nor wrote the cache
FailedFast(err) ==
    /\ rs'.pc = "thrown" /\ rs'.error = err
    /\ NoNetwork
    /\ UNCHANGED <<cache, hits, misses, lru, calls>>

\* C27: validation errors fail fast: searchByTitle with an empty or
\* non-string title and getByIMDbId with an id that does not match
\* ^tt\d{7,8}$ throw with no fetch, no rate-limiter slot, and no read or
\* write of the cache.
C27_ValidationFailsFast ==
    [][/\ \A title \in {"", NonString}, year \in ClientYears :
            SearchByTitle(title, year) => FailedFast("Invalid title parameter")
       /\ \A imdbId \in ClientIds :
            (GetByIMDbId(imdbId) /\ ~IMDB_ID(imdbId))
               => FailedFast("Invalid IMDb ID format")]_vars

\* getByIMDbId('tt12') has thrown with an API key configured, before any
\* cache lookup or request
C27_Witness ==
    /\ rs.api = "getByIMDbId" /\ rs.id = "tt12"
    /\ rs.pc = "thrown" /\ rs.error = "Invalid IMDb ID format"
    /\ apiKey = "key"
    /\ calls.made = 0 /\ sent = <<>>

\* The step threw the configuration error and made no network call
NotConfigured ==
    /\ rs'.pc = "thrown" /\ rs'.error = "API key not configured"
    /\ NoNetwork

\* C28: when no API key is configured, request() throws a configuration
\* error with no network call, no rate-limiter slot taken and no retry.
C28_NoKeyFailsWithoutNetwork ==
    [][/\ \A title \in ClientTitles, year \in ClientYears :
            (/\ SearchByTitle(title, year)
             /\ title \notin {"", NonString} /\ apiKey = "null")
               => NotConfigured
       /\ \A imdbId \in ClientIds :
            (GetByIMDbId(imdbId) /\ IMDB_ID(imdbId) /\ apiKey = "null")
               => NotConfigured]_vars

\* searchByTitle('Inception', 2010) has thrown the configuration error and
\* no request was ever sent
C28_Witness ==
    /\ rs.api = "searchByTitle" /\ rs.title = "Inception"
    /\ rs.pc = "thrown" /\ rs.error = "API key not configured"
    /\ apiKey = "null"
    /\ rs.fetches = 0 /\ sent = <<>> /\ requests = <<>>

\* Every change notification has been delivered and every reload has
\* completed
Quiescent == notices = <<>> /\ reads = <<>>

\* A value counts as empty when it is missing, null or the empty string
Empty(x) == x \in {"null", ""}
Same(x, y) == (Empty(x) /\ Empty(y)) \/ x = y

\* The credentials in memory are those of the store
MemoryMatchesStore ==
    /\ Same(apiKey, stored.omdbApiKey)
    /\ Same(plexToken, stored.plexToken)
    /\ Same(plexUrl, stored.plexUrl)
    /\ isAvailable <=> (~Empty(stored.plexToken) /\ ~Empty(stored.plexUrl))

Resolving(j) == Cardinality({i \in 1..Len(j) : j[i] \in {"finding", "rating"}})

\* C30: at most one addIMDbLink resolution is in progress at any time; a
\* trigger that arrives while one is in progress returns at once without
\* starting another, and is dropped, never run later.
C30_OneResolutionAtATime ==
    [][/\ Resolving(jobs') <= 1
       /\ \A i \in 1..Len(jobs) : jobs[i] = "dropped" => jobs'[i] = "dropped"
       /\ \A i \in 1..Len(jobs') :
            (/\ Resolving(jobs) = 1
             /\ i > Len(jobs) \/ jobs[i] = "waiting"
             /\ jobs'[i] \notin {"waiting", "stranded", "failed"})
               => /\ jobs'[i] = "dropped"
                  /\ isProcessing' = isProcessing]_vars

\* One call is resolving, and a trigger that arrived meanwhile was dropped
C30_Witness ==
    /\ isProcessing /\ urlObserver
    /\ \E i, k \in 1..Len(jobs) : jobs[i] = "rating" /\ jobs[k] = "dropped"

\* The recorded timestamps that are inside the window at this instant
LiveNow == {i \in 1..Len(requests) : now - requests[i] < windowMs}

\* The oldest of them
OldestLive ==
    requests[CHOOSE i \in LiveNow : \A j \in LiveNow : requests[i] <= requests[j]]

\* C32: getStatus().remaining is never negative and equals total minus the
\* number of recorded timestamps still inside the window; resetIn is 0 when
\* no timestamp is live, else the time until the oldest live one leaves
\* the window.
C32_StatusMatchesWindow ==
    [][GetStatus =>
          /\ probe'.remaining >= 0
          /\ probe'.total = maxRequests
          /\ probe'.remaining = probe'.total - Cardinality(LiveNow)
          /\ probe'.resetIn = IF LiveNow = {} THEN 0
                              ELSE windowMs - (now - OldestLive)]_vars

\* getStatus() has answered while the list held an expired timestamp and a
\* live one: one slot of two remains
C32_Witness ==
    /\ probe.op = "getStatus"
    /\ probe.total = 2 /\ probe.remaining = 1
    /\ probe.resetIn > 0 /\ probe.resetIn < probe.window
    /\ Len(stamps) = 2

\* The timestamps canRequest() removes: those that have left the window
LivePart(reqs) == SelectSeq(reqs, LAMBDA x : now - x < windowMs)

\* C33 as stated: canRequest() leaves the list of recorded timestamps as it
\* was.
C33_CanRequestLeavesList ==
    [][CanRequest => requests' = requests]_vars

\* C33 amended: canRequest() records no request and leaves the timestamps
\* inside the window as they were; it removes the expired ones.
C33_CanRequestOnlyPurges ==
    [][CanRequest =>
          /\ requests' = LivePart(requests)
          /\ stamps' = stamps /\ sent' = sent /\ st' = st
          /\ probe'.can = (Cardinality(LiveNow) < maxRequests)]_vars

\* canRequest() has answered yes after two timestamps were recorded: the
\* expired one is gone from the list, the live one is kept
C33_Witness ==
    /\ probe.op = "canRequest" /\ probe.can
    /\ Len(requests) = 1 /\ maxRequests = 2
    /\ now - requests[1] < windowMs
    /\ Len(stamps) = 2 /\ now - stamps[1] = windowMs

C34_InjectsAtMostOnce ==
    [][\A t \in Tabs :
         (Complete(t) /\ Len(runs') > Len(runs))
            => /\ t \notin injectedTabs
               /\ \A i \in 1..Len(runs) : runs[i].tab # t]_vars

\* The tab shows a Plex page whose load is complete; its document has all
\* the content scripts
Loaded(t) ==
    tabs[t].open /\ tabs[t].status = "complete" /\ isPlexUrl(tabs[t].url)
Injected(t) == tabs[t].files = 1..NFILES

\* C40: every Plex page load that completes in a tab eventually has the
\* content scripts injected, a reload or a new page load in a tab that is
\* tracked in injectedTabs included.
C40_EveryLoadInjected ==
    \A t \in Tabs : [](Loaded(t) => <>(Injected(t) \/ ~Loaded(t)))

\* The local server gave search terms and no id, the title search that uses
\* them went to the network and has ended without an id: no match, a
\* transport error, or a reply without one
PlexSearchFailed ==
    /\ rs.pageId = "null"
    /\ ~rs.plexMeta.none /\ rs.plexMeta.metadata.guid = "null"
    /\ rs.pc \notin {"idle", "plex", "omdbPlex"}
    /\ Len(rs.searches) >= 1 /\ rs.fetches >= 1
    /\ rs.replies = <<>> \/ rs.replies[1].imdbID = "null"

\* C35: a failed strategy does not end the resolution: when the local
\* server path obtains search terms and the title search using them fails
\* (no match or transport error), resolveIMDbId still searches with the
\* DOM title, and returns the id of that search when it finds one.
C35_FailedSearchFallsThrough ==
    PlexSearchFailed =>
        /\ Len(rs.searches) = 2
        /\ rs.searches[2] = <<rs.title, rs.year>>
        /\ (Len(rs.replies) = 2 /\ rs.replies[2].imdbID # "null") =>
              (rs.pc = "returned" /\ rs.result = rs.replies[2].imdbID)

\* C38: when an API key is persisted in settings, a request() issued at any
\* time after the client is constructed never fails with 'API key not
\* configured', a request issued before the constructor's key load has
\* completed included.
C38_PersistedKeyIsConfigured ==
    stored.omdbApiKey # "null" =>
        ~(rs.pc = "thrown" /\ rs.error = "API key not configured")

\* The calls that end, and the calls that are dropped, in this step
Ending == {i \in 1..Len(jobs') :
             jobs'[i] = "done" /\ (i > Len(jobs) \/ jobs[i] # "done")}
Dropping == {i \in 1..Len(jobs') :
               jobs'[i] = "dropped" /\ (i > Len(jobs) \/ jobs[i] # "dropped")}

\* C39: the in-flight flag is always released: when an addIMDbLink call
\* that set isProcessing ends, by early return, success or exception,
\* isProcessing is false afterwards; isProcessing is true only while a
\* resolution is running, and no trigger is dropped because of a call that
\* has ended.
C39_FlagReleased ==
    [][/\ Ending # {} => ~isProcessing'
       /\ isProcessing' => Resolving(jobs') = 1
       /\ Dropping # {} => Resolving(jobs) = 1]_vars

\* A call has ended by the exception of createIMDbLink, and a later trigger
\* has started its own resolution
C39_Witness ==
    /\ isProcessing
    /\ \E i, k \in 1..Len(jobs) :
          /\ i < k
          /\ jobs[i] = "done" /\ ids[i] = "tt12"
          /\ jobs[k] = "finding"

\* C31: no IMDb link is ever added to the page for an identifier that does
\* not match ^tt\d{7,8}$: getByIMDbId passes no such identifier on to
\* request(), and a call whose findIMDbId returned one, from the page scan
\* or from an API reply, ends without a link for it.
C31_OnlyValidIdsLinked ==
    /\ \A k \in 1..Len(links) : IMDB_ID(links[k])
    /\ \A k \in 1..Len(rated) : IMDB_ID(rated[k])
    /\ \A i \in 1..Len(jobs) :
          (jobs[i] = "done" /\ ids[i] # "null" /\ ~IMDB_ID(ids[i]))
             => \A k \in 1..Len(links) : links[k] # ids[i]

\* One call was given a malformed id and has ended, another has added its link
C31_Witness ==
    /\ links = <<"tt1234567">>
    /\ \E i \in 1..Len(jobs) : jobs[i] = "done" /\ ids[i] = "tt12"

\* C20: every non-null value resolveIMDbId returns matches ^tt\d{7,8}$.
C20_ReturnsValidatedId ==
    (rs.pc = "returned" /\ rs.result # "null") => IMDB_ID(rs.result)

\* ------------------------------------------------------------------------
\* Retrying fetch

\* C2: once an attempt has been answered with a 4xx status other than 429,
\* the call has failed: it is not waiting for a backoff, no further attempt
\* is in flight and it does not return a response.
C2_ClientErrorFailsAtOnce ==
    \A c \in Fetchers : st[c].got4xx => st[c].pc = "thrown"

\* C3: every attempt in flight, the first and each retry, has a pending
\* timeout timer that aborts it within FETCH_TIMEOUT_MS.
C3_EveryAttemptTimed ==
    \A c \in Fetchers :
        st[c].pc = "fetching" => st[c].armed /\ st[c].due <= FETCH_TIMEOUT_MS

\* C4: after an attempt was aborted by the timeout, no later attempt of the
\* call is issued on a signal that is already aborted.
C4_RetryGetsLiveSignal ==
    \A c \in Fetchers : st[c].timedOut => st[c].deadSignal = 0

FetchErrors == {"Error", "HTTP5xx", "HTTP4xx", "AbortError", "TypeError",
                "RateLimiterError"}

\* C5: a fetchWithRetry call that has ended either returned a response with
\* a successful status or threw an error; it never ended without a response.
C5_ReturnsResponseOrThrows ==
    \A c \in Fetchers :
        (st[c].api = "fetch" /\ Finished(st[c])) =>
            \/ st[c].pc = "returned" /\ st[c].result = "response"
                                     /\ ok(st[c].status)
            \/ st[c].pc = "thrown" /\ st[c].result \in FetchErrors

\* A call whose every attempt, maxRetries of them, was answered with 429
C5_Witness ==
    \E c \in Fetchers :
        /\ Finished(st[c]) /\ st[c].maxRetries = MAX_RETRY_ATTEMPTS
        /\ st[c].nSent = MAX_RETRY_ATTEMPTS /\ st[c].nWaits = MAX_RETRY_ATTEMPTS
        /\ st[c].status = 429 /\ st[c].lastError = "null"
        /\ st[c].pc = "thrown"

\* Every attempt the call has made so far, if any, failed with a 5xx
\* status or at the network level
OnlyTransportFailures(s) ==
    /\ ~s.got4xx /\ ~s.got429
    /\ s.event \in {"none", "5xx", "TypeError", "AbortError"}

\* C16: when the first k attempts fail with 5xx or a network failure and
\* the next one is answered 200, the call returns that response after
\* exactly k backoff waits, the i-th lasting
\* min(INITIAL_RETRY_DELAY_MS * 2^i, MAX_RETRY_DELAY_MS).
C16_BackoffThenSuccess ==
    [][\A c \in Fetchers :
         /\ (SleepWake(c) /\ st[c].pc = "backoff")
               => st[c].waited = Min(INITIAL_RETRY_DELAY_MS * Pow2(st[c].attempt),
                                     MAX_RETRY_DELAY_MS)
         /\ (FetchResponds(c, 200, 0 - 1) /\ OnlyTransportFailures(st[c]))
               => /\ st'[c].pc = "returned" /\ st'[c].result = "response"
                  /\ st'[c].nWaits = st[c].attempt
                  /\ st'[c].nSent = st[c].attempt + 1]_vars

\* A 500, one backoff wait of INITIAL_RETRY_DELAY_MS, then a 200
C16_Witness ==
    \E c \in Fetchers :
        /\ st[c].pc = "returned" /\ st[c].status = 200
        /\ st[c].lastError = "HTTP5xx" /\ st[c].attempt = 1
        /\ st[c].nWaits = 1 /\ st[c].lastWait = INITIAL_RETRY_DELAY_MS

\* C17: a call issues at most maxRetries network attempts; when all of
\* them fail with 5xx or network failures it throws the error of the last.
C17_AtMostMaxRetries ==
    \A c \in Fetchers :
        /\ st[c].nSent <= st[c].maxRetries
        /\ (/\ Finished(st[c]) /\ st[c].pc # "idle"
            /\ st[c].maxRetries > 0
            /\ st[c].attempt = st[c].maxRetries - 1
            /\ ~st[c].got4xx /\ ~st[c].got429
            /\ st[c].event \in {"5xx", "TypeError", "AbortError"})
              => /\ st[c].pc = "thrown"
                 /\ st[c].result = IF st[c].event = "5xx" THEN "HTTP5xx"
                                    ELSE st[c].event

\* Three attempts answered 500: two backoff waits, the last error thrown
C17_Witness ==
    \E c \in Fetchers :
        /\ st[c].pc = "thrown" /\ st[c].maxRetries = MAX_RETRY_ATTEMPTS
        /\ st[c].nSent = MAX_RETRY_ATTEMPTS /\ st[c].event = "5xx"
        /\ ~st[c].got4xx /\ ~st[c].got429 /\ st[c].result = "HTTP5xx"
        /\ st[c].nWaits = MAX_RETRY_ATTEMPTS - 1

\* C18: after a 429 carrying Retry-After: n the next attempt is not issued
\* until n seconds have passed; without the header, not until 60 s have.
C18_RetryAfterHonoured ==
    [][\A c \in Fetchers :
         (SleepWake(c) /\ st[c].pc = "wait429")
            => st[c].waited >=
                 1000 * (IF st[c].hdr = -1 THEN DEFAULT_RETRY_AFTER
                         ELSE st[c].hdr)]_vars

\* A 429 with Retry-After: MaxRetryAfter, and the next attempt in flight
C18_Witness ==
    \E c \in Fetchers :
        /\ st[c].pc = "fetching" /\ st[c].event = "429"
        /\ st[c].hdr = MaxRetryAfter /\ st[c].lastWait = 1000 * MaxRetryAfter
        /\ st[c].attempt = 1 /\ st[c].nSent = 2

\* The entries of a log that lie inside the sliding window ending now
Recent(log) == {i \in 1..Len(log) : now - log[i] < windowMs}

\* C6: the network requests sent inside any sliding window of windowMs,
\* retries included, number at most maxRequests.
C6_SentWithinLimit == Cardinality(Recent(sent)) <= maxRequests

\* ------------------------------------------------------------------------
\* LRU cache

\* C11 as amended: get(key) returns a value, the one last set for the key,
\* if and only if the key was set, has not been evicted, deleted or cleared
\* since, and now <= expiry holds for its entry.
C11_RetrievableUntilExpiry ==
    last.op = "get" =>
        last.ret = IF last.found \in {"live", "atExpiry"} THEN last.stored
                   ELSE "null"

\* A get at the very instant of the entry's expiry has returned its value
C11_Witness ==
    /\ last.op = "get" /\ last.found = "atExpiry"
    /\ last.ret = last.stored /\ last.ret \in Values

\* C11 as claimed: get(key) returns a value if and only if the key was set,
\* has not been evicted, and now < expiry holds for its entry.
C11_RetrievableBeforeExpiry ==
    last.op = "get" =>
        last.ret = IF last.found = "live" THEN last.stored ELSE "null"

\* The keys of the entries a Map holds
KeysOf(c) == {c[i].key : i \in 1..Len(c)}

\* C12: a set that inserts a new key into a cache holding maxSize entries
\* evicts exactly one entry, the least recently accessed one.
C12_EvictsLeastRecentlyAccessed ==
    [][\A key \in LruKeys :
         (Set(key, "v1") /\ key \notin KeysOf(cache) /\ Len(cache) = maxSize)
            => KeysOf(cache) \ KeysOf(cache') = {lru[1].key}]_vars

\* C37: set(key, value) for a key that is already stored replaces that
\* key's value and expiry and removes no other key from the cache, even when
\* the cache holds maxSize entries.
C37_OverwriteKeepsOthers ==
    [][\A key \in Keys, value \in Values :
         (Set(key, value) /\ key \in KeysOf(cache))
            => /\ KeysOf(cache') = KeysOf(cache)
               /\ cache'[IndexOf(cache', key)].value = value
               /\ cache'[IndexOf(cache', key)].expiry = now + ttl]_vars

\* C13: get(key) on an entry past its expiry (now > expiry) returns
\* not-found, counts one miss and no hit, and removes the entry, so the key
\* is no longer among keys().
C13_ExpiredIsGone ==
    [][\A key \in Keys :
         (Get(key) /\ Found(lru, key, now) = "expired")
            => /\ last'.ret = "null"
               /\ misses' = misses + 1 /\ hits' = hits
               /\ key \in KeysOf(cache) /\ key \notin KeysOf(cache')]_vars

\* A get has found an entry past its expiry and has removed it
C13_Witness ==
    /\ last.op = "get" /\ last.found = "expired" /\ last.ret = "null"
    /\ last.key \notin KeysOf(cache) /\ misses > 0

\* C14: has(key) returns true exactly when get(key) at the same instant
\* would return a stored value, and it has the effects of get: it counts
\* one hit or one miss, moves a live entry to the most recently used
\* position, and removes an entry past its expiry.
C14_HasIsGet ==
    [][\A key \in Keys :
         Has(key) =>
            LET live == Found(lru, key, now) \in {"live", "atExpiry"}
                r == get(cache, key, now)
            IN  /\ last'.ret = IF live THEN "true" ELSE "false"
                /\ live <=> r.hit
                /\ cache' = r.cache
                /\ hits' = IF live THEN hits + 1 ELSE hits
                /\ misses' = IF live THEN misses ELSE misses + 1
                /\ live => /\ cache'[Len(cache')].key = key
                           /\ KeysOf(cache') = KeysOf(cache)
                /\ Found(lru, key, now) = "expired"
                      => key \notin KeysOf(cache')]_vars

\* A has() has found a live entry behind another one and has moved it to
\* the most recently used position
C14_Witness ==
    /\ last.op = "has" /\ last.found = "live" /\ last.ret = "true"
    /\ Len(cache) > 1 /\ cache[Len(cache)].key = last.key
    /\ lru = cache /\ hits > 0

\* C15 as amended: hits + misses equals the number of get and has calls
\* made since the cache was constructed or last cleared; clear() empties
\* the cache and resets both counters to zero; with no calls counted
\* hitRate is reported as "0.00%".
C15_StatsCountCallsSinceClear ==
    [][/\ hits + misses = calls.sinceClear
       /\ hits' + misses' = calls'.sinceClear
       /\ Clear => (cache' = <<>> /\ hits' = 0 /\ misses' = 0)
       /\ calls.sinceClear = 0
             => getStats.hitRate = [whole |-> 0, decimals |-> 0]]_vars

\* clear() has reset the counters of a cache that had counted calls
C15_Witness ==
    /\ last.op = "clear" /\ calls.made > 0 /\ calls.sinceClear = 0
    /\ hits = 0 /\ misses = 0 /\ cache = <<>>
    /\ getStats.hitRate = [whole |-> 0, decimals |-> 0]

\* C15 as claimed: at any time hits + misses equals the total number of
\* get and has calls made on the cache.
C15_StatsCountAllCalls == hits + misses = calls.made

\* C10: after any sequence of set, get, has, delete and clear the cache
\* holds at most maxSize entries.
C10_SizeWithinMax == Len(cache) <= maxSize

\* A set on a full cache has evicted an entry and the cache is full again
C10_Witness ==
    /\ last.op = "set" /\ last.evicted \notin {"none", last.key}
    /\ Len(cache) = maxSize

\* ------------------------------------------------------------------------
\* Rate limiter

\* C7: of any maxRequests + 1 acquire() calls, the last completes no earlier
\* than windowMs after the timestamp recorded by the first.
C7_WindowBetweenAcquires ==
    \A i \in 1..(Len(stamps) - maxRequests) :
        stamps[i + maxRequests] - stamps[i] >= windowMs

\* maxRequests calls completed at one instant and the next call, which had
\* to wait, completed exactly windowMs later
C7_Witness ==
    /\ Len(stamps) = maxRequests + 1
    /\ stamps[maxRequests] = stamps[1]
    /\ stamps[maxRequests + 1] = now /\ stamps[1] = now - windowMs
    /\ \E c \in Callers : st[c].pc = "returned" /\ st[c].evals = 1

\* C8: with timers that never fire early, no acquire() call fails with the
\* recursion-limit error.
C8_NoRecursionError ==
    \A c \in Callers : st[c].result # "RateLimiterError"

\* C9: a call evaluates the limiter at most MAX_RECURSION_DEPTH times; after
\* it has found the limiter full that many times, waiting after each, its
\* next resumption fails with the limiter error and records no timestamp;
\* the limiter error arises in no other way.
C9_RecursionCap ==
    [][\A c \in Callers :
          /\ st'[c].evals <= MAX_RECURSION_DEPTH
          /\ (st[c].pc = "acqWait" /\ st[c].evals = MAX_RECURSION_DEPTH
                /\ st'[c] # st[c] /\ st'[c].pc # "acqWait") =>
                (st'[c].result = "RateLimiterError" /\ requests' = requests
                    /\ stamps' = stamps)
          /\ (st[c].pc = "acqWait" /\ st'[c].result = "RateLimiterError") =>
                st[c].evals = MAX_RECURSION_DEPTH]_vars

\* A call has failed after finding the limiter full MAX_RECURSION_DEPTH times
C9_Witness ==
    \E c \in Callers :
        /\ st[c].pc = "thrown" /\ st[c].result = "RateLimiterError"
        /\ st[c].evals = MAX_RECURSION_DEPTH

====
